---- MODULE Spec2Model ----
(***************************************************************************)
(* go-i18ngen: template compilation and model resolution.                  *)
(*                                                                         *)
(* Strings are sequences of one-character strings, so that scanning,       *)
(* trimming, splitting and case conversion are computed character by       *)
(* character as the Go code computes them.  Go maps are TLA+ functions;    *)
(* an iteration over a Go map is a nondeterministic choice of an order of  *)
(* its keys.                                                               *)
(***************************************************************************)
EXTENDS Integers, Sequences, FiniteSets, TLC

VARIABLES
    \* parser: extractFieldInfos / validateNoDuplicatePlaceholders
    tmpl,          \* the template handed to the parser
    remaining,     \* extractFieldInfos: the text still to scan
    results,       \* extractFieldInfos: the FieldInfos found so far
    epc,           \* position: "scan", "done", "validated"; "complexity", "checked"
    dupErr,        \* validateNoDuplicatePlaceholders returned an error
    complexErr,    \* validateTemplateComplexity returned an error
    charIndex,     \* validateTemplateComplexity: position of the next character
    currentDepth,  \* validateTemplateComplexity: currentDepth
    maxCurrentDepth, \* validateTemplateComplexity: maxCurrentDepth
    \* model: FieldInfo.GenerateFieldName / GenerateTemplateKey
    fi,            \* the FieldInfo receiver
    genName,       \* result of GenerateFieldName
    genKey,        \* result of GenerateTemplateKey
    genStruct,     \* result of generateStructName
    ipc,           \* "new", "named", "keyed", "structured"
    \* model: Build
    messages,      \* []MessageSource
    placeholders,  \* []PlaceholderSource
    locales,       \* []string
    cfg,           \* *config.Config
    placeholderTypes, \* map[string]string local to Build
    defs,          \* Definitions under construction
    bpc,           \* position in Build: "placeholders", "messages", "sort", "done"
    run,           \* number of the Build run over this input (1 or 2)
    firstDefs,     \* result of the first run, kept to compare the second with
    \* parser: ParseMessages
    pmFiles,       \* the decoded content of the files the glob pattern matches
    pmFile,        \* index of the file being read
    pmPending,     \* message IDs of the file not yet iterated over
    pmResults,     \* ParseMessages: results
    pmRet,         \* the pair ParseMessages returned
    pmpc,          \* "glob", "file", "messages", "returned", "built"
    \* parser: convertMixedToStringMap, then model.messageSupportsCount
    rawData,       \* locale -> raw value of one message (string or plural forms)
    flatData,      \* locale -> flattened template
    supportsCount, \* result of messageSupportsCount
    firstFlat,     \* flatData of the first conversion
    ncfg,          \* *config.Config handed to messageSupportsCount
    npc,           \* "raw", "flat", "counted", "again", "flatAgain"
    \* utils.SafeGoIdentifier
    ident,         \* the name handed to SafeGoIdentifier
    escaped,       \* SafeGoIdentifier(ident)
    escapedTwice,  \* SafeGoIdentifier(SafeGoIdentifier(ident))
    spc,           \* "new", "once", "twice"
    \* parser: ParsePlaceholders
    phFiles,       \* the files the glob pattern matches: base name and content
    phCompound,    \* the argument compound
    phFile,        \* index of the file being read
    kindMap,       \* kind -> id -> locale -> value
    phResults,     \* ParsePlaceholders: results
    phRet,         \* the pair ParsePlaceholders returned
    phpc,          \* "files", "kinds", "returned"
    \* config: Config.IsPluralPlaceholder
    configured,    \* plural_placeholders as written in the configuration
    pluralCfg,     \* the *Config receiver
    pname,         \* the argument name
    isPlural,      \* result of IsPluralPlaceholder
    ppc,           \* "new", "called"
    \* generator: Run
    runCfg,        \* the argument cfg
    found,         \* number of files the messages pattern matched
    messageCount,       \* number of messages ParseMessages returned
    executed,      \* the stages entered so far, each with its outcome
    returnErr,     \* the stage whose error Run returned, "" for nil
    dirCreated,    \* the output directory was created by this run
    fileWritten,   \* the output file was written by this run
    gpc,           \* the stage to enter next, "returned" after Run returned
    \* parser: ParseMessages called a second time on the same files
    pmRun,         \* number of the ParseMessages call (1 or 2)
    firstRet       \* the pair the first call returned

depthVars  == <<charIndex, currentDepth, maxCurrentDepth>>
parserVars == <<tmpl, remaining, results, epc, dupErr, complexErr, depthVars>>
identVars  == <<fi, genName, genKey, genStruct, ipc>>
buildVars  == <<messages, placeholders, locales, cfg, placeholderTypes, defs,
                bpc, run, firstDefs>>
messageFileVars == <<pmFiles, pmFile, pmPending, pmResults, pmRet, pmpc>>
normalizeVars == <<rawData, flatData, supportsCount, firstFlat, ncfg, npc>>
safeVars == <<ident, escaped, escapedTwice, spc>>
placeholderFileVars == <<phFiles, phCompound, phFile, kindMap, phResults, phRet, phpc>>
inputVars == <<messageFileVars, placeholderFileVars>>
pluralVars == <<configured, pluralCfg, pname, isPlural, ppc>>
generatorVars == <<runCfg, found, messageCount, executed, returnErr, dirCreated,
                   fileWritten, gpc>>
rerunVars == <<pmRun, firstRet>>
callVars == <<pluralVars, generatorVars, rerunVars>>
utilVars == <<normalizeVars, safeVars, callVars>>
vars == <<parserVars, identVars, buildVars, inputVars, utilVars>>

(***************************************************************************)
(* Characters and strings                                                  *)
(***************************************************************************)
LowerLetters == <<"a","b","c","d","e","f","g","h","i","j","k","l","m",
                  "n","o","p","q","r","s","t","u","v","w","x","y","z">>
UpperLetters == <<"A","B","C","D","E","F","G","H","I","J","K","L","M",
                  "N","O","P","Q","R","S","T","U","V","W","X","Y","Z">>
Digits == <<"0","1","2","3","4","5","6","7","8","9">>

PosIn(c, seq) == IF \E i \in DOMAIN seq : seq[i] = c
                 THEN CHOOSE i \in DOMAIN seq : seq[i] = c
                 ELSE 0

\* byte value of an ASCII character (Go compares strings bytewise)
Ord(c) ==
    IF PosIn(c, LowerLetters) > 0 THEN 96 + PosIn(c, LowerLetters)
    ELSE IF PosIn(c, UpperLetters) > 0 THEN 64 + PosIn(c, UpperLetters)
    ELSE IF PosIn(c, Digits) > 0 THEN 47 + PosIn(c, Digits)
    ELSE CASE c = " " -> 32
           [] c = "." -> 46
           [] c = ":" -> 58
           [] c = "_" -> 95
           [] c = "{" -> 123
           [] c = "|" -> 124
           [] c = "}" -> 125
           [] OTHER  -> 63

\* strings.ToUpper / strings.ToLower on one ASCII character
ToUpperChar(c) == IF PosIn(c, LowerLetters) > 0
                  THEN UpperLetters[PosIn(c, LowerLetters)] ELSE c
ToLowerChar(c) == IF PosIn(c, UpperLetters) > 0
                  THEN LowerLetters[PosIn(c, UpperLetters)] ELSE c
ToLower(s) == [i \in 1..Len(s) |-> ToLowerChar(s[i])]

IsSpace(c) == c = " "
IsDigit(c) == PosIn(c, Digits) > 0

\* Go's s[from:to] with 0-based, half-open bounds
Slice(s, from, to) == SubSeq(s, from + 1, to)
SliceFrom(s, from) == SubSeq(s, from + 1, Len(s))

HasPrefix(s, p) == Len(s) >= Len(p) /\ SubSeq(s, 1, Len(p)) = p

\* strings.Index: 0-based index of the first occurrence of sub in s, or -1
Index(s, sub) ==
    LET hits == {i \in 0..(Len(s) - Len(sub)) : Slice(s, i, i + Len(sub)) = sub}
    IN IF hits = {} THEN -1 ELSE CHOOSE i \in hits : \A j \in hits : i <= j

Contains(s, sub) == Index(s, sub) # -1

\* strings.Count for a non-empty sub: non-overlapping occurrences
RECURSIVE Count(_, _)
Count(s, sub) ==
    LET i == Index(s, sub)
    IN IF i = -1 THEN 0 ELSE 1 + Count(SliceFrom(s, i + Len(sub)), sub)

\* strings.TrimSpace
TrimSpace(s) ==
    LET keep == {i \in 1..Len(s) : ~IsSpace(s[i])}
    IN IF keep = {} THEN <<>>
       ELSE SubSeq(s, CHOOSE i \in keep : \A j \in keep : i <= j,
                      CHOOSE i \in keep : \A j \in keep : i >= j)

\* strings.Split(s, sep) for a one-character sep
RECURSIVE Split(_, _)
Split(s, sep) ==
    LET i == Index(s, <<sep>>)
    IN IF i = -1 THEN <<s>>
       ELSE <<Slice(s, 0, i)>> \o Split(SliceFrom(s, i + 1), sep)

\* strings.Join(parts, "")
RECURSIVE Join(_)
Join(parts) == IF parts = <<>> THEN <<>> ELSE Head(parts) \o Join(Tail(parts))

\* s < t on Go strings (bytewise lexicographic)
RECURSIVE StrLess(_, _)
StrLess(s, t) ==
    IF t = <<>> THEN FALSE
    ELSE IF s = <<>> THEN TRUE
    ELSE IF s[1] # t[1] THEN Ord(s[1]) < Ord(t[1])
    ELSE StrLess(Tail(s), Tail(t))

(***************************************************************************)
(* utils.ToCamelCase                                                       *)
(***************************************************************************)
\* ToCamelCase upper-casing the first segment only
ToCamelCaseFirstSegment(s) ==
    LET parts == Split(s, "_")
        cased == [i \in 1..Len(parts) |->
                    IF parts[i] # <<>> /\ i = 1
                    THEN <<ToUpperChar(parts[i][1])>> \o Tail(parts[i])
                    ELSE parts[i]]
    IN Join(cased)

ToCamelCase(s) ==
    LET parts == Split(s, "_")
        cased == [i \in 1..Len(parts) |->
                    IF parts[i] # <<>>
                    THEN <<ToUpperChar(parts[i][1])>> \o Tail(parts[i])
                    ELSE parts[i]]
    IN Join(cased)

(***************************************************************************)
(* model.FieldInfo                                                         *)
(***************************************************************************)
FieldInfo(name, suffix) == [Name |-> name, Suffix |-> suffix]

GenerateFieldName(f) ==
    IF f.Suffix # <<>>
    THEN ToCamelCase(f.Name) \o ToCamelCase(f.Suffix)
    ELSE ToCamelCase(f.Name)

GenerateTemplateKey(f) ==
    IF f.Suffix # <<>>
    THEN f.Name \o ToCamelCase(f.Suffix)
    ELSE f.Name

(***************************************************************************)
(* parser.extractFieldInfos                                                *)
(***************************************************************************)
OpenBraces  == <<"{", "{">>
CloseBraces == <<"}", "}">>

\* FieldOfExpression with the function chain left in the field part
FieldOfExpressionKeepChain(expression) ==
    IF HasPrefix(expression, <<".">>)
    THEN LET fieldPart  == TrimSpace(SliceFrom(expression, 1))
             colonIndex == Index(fieldPart, <<":">>)
             fieldName  == IF colonIndex # -1
                           THEN TrimSpace(Slice(fieldPart, 0, colonIndex))
                           ELSE fieldPart
             suffix     == IF colonIndex # -1
                           THEN TrimSpace(SliceFrom(fieldPart, colonIndex + 1))
                           ELSE <<>>
         IN IF fieldName # <<>> THEN <<FieldInfo(fieldName, suffix)>> ELSE <<>>
    ELSE <<>>

\* the field of one expression (the trimmed text between {{ and }}), as a
\* sequence of zero or one FieldInfo
FieldOfExpression(expression) ==
    IF HasPrefix(expression, <<".">>)
    THEN LET fieldExpression == SliceFrom(expression, 1)
             parts      == Split(fieldExpression, "|")
             fieldPart  == TrimSpace(parts[1])
             colonIndex == Index(fieldPart, <<":">>)
             fieldName  == IF colonIndex # -1
                           THEN TrimSpace(Slice(fieldPart, 0, colonIndex))
                           ELSE fieldPart
             suffix     == IF colonIndex # -1
                           THEN TrimSpace(SliceFrom(fieldPart, colonIndex + 1))
                           ELSE <<>>
         IN IF fieldName # <<>> THEN <<FieldInfo(fieldName, suffix)>> ELSE <<>>
    ELSE <<>>

\* one iteration of the for loop that goes on with the text from the opening
\* braces it found
ExtractIterationFromStart(rem, res) ==
    LET start == Index(rem, OpenBraces)
        end   == IF start = -1 THEN -1 ELSE Index(SliceFrom(rem, start), CloseBraces)
    IN IF start = -1 \/ end = -1
       THEN [done |-> TRUE, remaining |-> rem, results |-> res]
       ELSE [done |-> FALSE,
             remaining |-> SliceFrom(rem, start),
             results |-> res \o FieldOfExpression(
                            TrimSpace(Slice(rem, start + 2, start + end)))]

\* one iteration of the for loop: the loop either breaks (done) or goes on
\* with a shorter remaining text
ExtractIteration(rem, res) ==
    LET start == Index(rem, OpenBraces)
        end   == IF start = -1 THEN -1 ELSE Index(SliceFrom(rem, start), CloseBraces)
    IN IF start = -1 \/ end = -1
       THEN [done |-> TRUE, remaining |-> rem, results |-> res]
       ELSE [done |-> FALSE,
             remaining |-> SliceFrom(rem, start + end + 2),
             results |-> res \o FieldOfExpression(
                            TrimSpace(Slice(rem, start + 2, start + end)))]

RECURSIVE ExtractLoop(_, _)
ExtractLoop(rem, res) ==
    LET it == ExtractIteration(rem, res)
    IN IF it.done THEN it.results ELSE ExtractLoop(it.remaining, it.results)

extractFieldInfos(t) == ExtractLoop(t, <<>>)

(***************************************************************************)
(* parser.validateNoDuplicatePlaceholders: TRUE when it returns an error   *)
(***************************************************************************)
\* validateNoDuplicatePlaceholders counting suffixed occurrences as well
validateCountingSuffixed(t) ==
    LET fieldInfos == extractFieldInfos(t)
    IN \E i, j \in DOMAIN fieldInfos : i # j /\ fieldInfos[i].Name = fieldInfos[j].Name

validateNoDuplicatePlaceholders(t) ==
    LET fieldInfos == extractFieldInfos(t)
        names == {fieldInfos[i].Name : i \in DOMAIN fieldInfos}
        fieldCounts == [n \in names |->
            Cardinality({i \in DOMAIN fieldInfos :
                            fieldInfos[i].Suffix = <<>> /\ fieldInfos[i].Name = n})]
    IN \E n \in names : fieldCounts[n] > 1

(***************************************************************************)
(* config.Config                                                           *)
(***************************************************************************)
getDefaultPluralPlaceholders == << <<"C", "o", "u", "n", "t">> >>

\* the configured list after GetPluralPlaceholders stored the default in it
DefaultedPluralPlaceholders(c) ==
    IF Len(c.PluralPlaceholders) = 0
    THEN getDefaultPluralPlaceholders
    ELSE c.PluralPlaceholders

RECURSIVE WithLowercase(_)
WithLowercase(list) ==
    IF list = <<>> THEN <<>>
    ELSE (IF Head(list) # ToLower(Head(list))
          THEN <<Head(list), ToLower(Head(list))>>
          ELSE <<Head(list)>>) \o WithLowercase(Tail(list))

GetPluralPlaceholders(c) == WithLowercase(DefaultedPluralPlaceholders(c))

\* strings.EqualFold on ASCII strings
EqualFold(s, t) == ToLower(s) = ToLower(t)

IsPluralPlaceholderExact(c, name) ==
    LET plurals == GetPluralPlaceholders(c)
    IN \E i \in DOMAIN plurals : plurals[i] = name

IsPluralPlaceholder(c, name) ==
    LET plurals == GetPluralPlaceholders(c)
    IN \E i \in DOMAIN plurals : EqualFold(plurals[i], name)

(***************************************************************************)
(* sort.Slice on a slice of at most 12 elements (insertion sort), the      *)
(* elements given with their sort keys; a key is a tuple of strings        *)
(***************************************************************************)
RECURSIVE KeyLess(_, _)
KeyLess(k1, k2) ==
    IF k1 = <<>> \/ k2 = <<>> THEN FALSE
    ELSE IF Head(k1) # Head(k2) THEN StrLess(Head(k1), Head(k2))
    ELSE KeyLess(Tail(k1), Tail(k2))

\* data[j] sinks towards the front while it is less than its left neighbour
RECURSIVE SinkDown(_, _)
SinkDown(data, j) ==
    IF j > 1 /\ KeyLess(data[j].key, data[j - 1].key)
    THEN SinkDown([data EXCEPT ![j] = data[j - 1], ![j - 1] = data[j]], j - 1)
    ELSE data

RECURSIVE InsertionSort(_, _)
InsertionSort(data, i) ==
    IF i > Len(data) THEN data ELSE InsertionSort(SinkDown(data, i), i + 1)

SortSlice(keyed) ==
    LET sorted == InsertionSort(keyed, 2)
    IN [i \in 1..Len(sorted) |-> sorted[i].val]

(***************************************************************************)
(* model.Build: the placeholder definitions                                *)
(***************************************************************************)
ValueSuffix == <<"V", "a", "l", "u", "e">>
TextSuffix  == <<"T", "e", "x", "t">>
TemplatesSuffix == <<"T", "e", "m", "p", "l", "a", "t", "e", "s">>

\* m[k] on a Go map of strings: the empty string when the key is missing
MapGet(m, k) == IF k \in DOMAIN m THEN m[k] ELSE <<>>

PrimaryLocale(locs) == IF Len(locs) > 0 THEN locs[1] ELSE "en"

\* IsValueKind satisfied by a single item without locale text
IsValueKindSomeItem(ph) ==
    DOMAIN ph.Items = {} \/ \E id \in DOMAIN ph.Items : DOMAIN ph.Items[id] = {}

IsValueKind(ph) == \A id \in DOMAIN ph.Items : DOMAIN ph.Items[id] = {}

TypeNameOf(ph) ==
    IF IsValueKind(ph) THEN ToCamelCase(ph.Kind) \o ValueSuffix
    ELSE ToCamelCase(ph.Kind) \o TextSuffix

\* the orders in which a range loop may visit the keys of a map
KeyOrders(m) ==
    { o \in [1..Cardinality(DOMAIN m) -> DOMAIN m] :
        \A i, j \in DOMAIN o : i # j => o[i] # o[j] }

\* the items in the order the range loop appended them
ItemsInOrder(ph, order) ==
    [i \in 1..Len(order) |->
        [ID |-> order[i], FieldName |-> ToCamelCase(order[i]),
         Templates |-> ph.Items[order[i]]]]

\* sort key of an item of a Text kind: text in the primary locale (the ID
\* when that is empty), then the ID
ItemSortKeyByID(ph, item, primaryLocale) == <<item.ID>>

ItemSortKey(ph, item, primaryLocale) ==
    LET text == MapGet(ph.Items[item.ID], primaryLocale)
    IN <<IF text = <<>> THEN item.ID ELSE text, item.ID>>

SortedItems(ph, items, primaryLocale) ==
    SortSlice([i \in 1..Len(items) |->
                 [key |-> ItemSortKey(ph, items[i], primaryLocale), val |-> items[i]]])

\* the definition appended for one placeholder source
PlaceholderDef(ph, order, primaryLocale) ==
    LET items == ItemsInOrder(ph, order)
    IN [StructName |-> TypeNameOf(ph),
        VarName    |-> ph.Kind \o TemplatesSuffix,
        IsValue    |-> IsValueKind(ph),
        Items      |-> IF IsValueKind(ph) THEN items
                       ELSE SortedItems(ph, items, primaryLocale)]

\* placeholderTypes after the kind and every item ID were mapped to the type
MapKind(types, ph) ==
    [k \in DOMAIN types \cup {ph.Kind} \cup DOMAIN ph.Items |->
        IF k = ph.Kind \/ k \in DOMAIN ph.Items THEN TypeNameOf(ph) ELSE types[k]]

(***************************************************************************)
(* model.ProcessMessageTemplatesWithFieldInfos: every suffixed occurrence  *)
(* {{.name:suffix}} becomes {{.<template key>}}, anything else is kept     *)
(***************************************************************************)
LeadingSpaces(s) ==
    IF \A i \in DOMAIN s : IsSpace(s[i]) THEN Len(s)
    ELSE (CHOOSE i \in DOMAIN s :
             ~IsSpace(s[i]) /\ \A j \in 1..(i - 1) : IsSpace(s[j])) - 1

TrailingSpaces(s) ==
    IF \A i \in DOMAIN s : IsSpace(s[i]) THEN Len(s)
    ELSE Len(s) - (CHOOSE i \in DOMAIN s :
                      ~IsSpace(s[i]) /\ \A j \in (i + 1)..Len(s) : IsSpace(s[j]))

\* the text between {{ and }} with its field path replaced by the template key
RewriteContent(content) ==
    LET f == FieldOfExpression(TrimSpace(content))
    IN IF f = <<>> \/ f[1].Suffix = <<>> THEN content
       ELSE LET lead  == LeadingSpaces(content)
                e     == SliceFrom(content, lead)
                bar   == Index(e, <<"|">>)
                path  == IF bar = -1 THEN e ELSE Slice(e, 0, bar)
                chain == IF bar = -1 THEN <<>> ELSE SliceFrom(e, bar)
            IN Slice(content, 0, lead) \o <<".">> \o GenerateTemplateKey(f[1])
                 \o SliceFrom(path, Len(path) - TrailingSpaces(path)) \o chain

RECURSIVE RewriteTemplate(_)
RewriteTemplate(t) ==
    LET start == Index(t, OpenBraces)
        end   == IF start = -1 THEN -1 ELSE Index(SliceFrom(t, start), CloseBraces)
    IN IF start = -1 \/ end = -1 THEN t
       ELSE Slice(t, 0, start + 2)
              \o RewriteContent(Slice(t, start + 2, start + end))
              \o CloseBraces
              \o RewriteTemplate(SliceFrom(t, start + end + 2))

ProcessMessageTemplatesWithFieldInfos(templates, fieldInfos) ==
    [l \in DOMAIN templates |-> RewriteTemplate(templates[l])]

(***************************************************************************)
(* model.messageSupportsCount                                              *)
(***************************************************************************)
GoI18n == "go-i18n"

\* first position from i on that holds no blank (Len(t) + 1 if there is none)
SkipSpaces(t, i) ==
    CHOOSE j \in i..(Len(t) + 1) :
        /\ j = Len(t) + 1 \/ ~IsSpace(t[j])
        /\ \A k \in i..(j - 1) : IsSpace(t[k])

\* sub occurs in t at position i (1-based)
OccursAt(t, i, sub) ==
    /\ i >= 1 /\ i + Len(sub) - 1 <= Len(t)
    /\ \A k \in 1..Len(sub) : t[i + k - 1] = sub[k]

\* the pattern \{\{\s*\.\s*<placeholder>\s*\}\} matches t at position i
PluralPatternAt(t, i, placeholder) ==
    /\ OccursAt(t, i, OpenBraces)
    /\ LET dot == SkipSpaces(t, i + 2)
       IN /\ OccursAt(t, dot, <<".">>)
          /\ LET name == SkipSpaces(t, dot + 1)
             IN /\ OccursAt(t, name, placeholder)
                /\ OccursAt(t, SkipSpaces(t, name + Len(placeholder)), CloseBraces)

PluralCategoryMarks ==
    { <<"o", "n", "e", ":">>, <<"o", "t", "h", "e", "r", ":">>, <<"f", "e", "w", ":">>,
      <<"m", "a", "n", "y", ":">>, <<"z", "e", "r", "o", ":">> }

messageSupportsCount(templates, c) ==
    IF c.Backend # GoI18n THEN FALSE
    ELSE LET pluralPlaceholders == GetPluralPlaceholders(c)
         IN \E l \in DOMAIN templates :
               \/ \E k \in DOMAIN pluralPlaceholders : \E i \in 1..Len(templates[l]) :
                     PluralPatternAt(templates[l], i, pluralPlaceholders[k])
               \/ \E mark \in PluralCategoryMarks : Contains(templates[l], mark)

(***************************************************************************)
(* model.Build: the message definitions                                    *)
(***************************************************************************)
MsgPrefix == <<"M", "s", "g">>

\* generateStructName without the prefix for a leading digit
generateStructNamePlain(id) == ToCamelCase(id)

generateStructName(id) ==
    IF id # <<>> /\ IsDigit(id[1])
    THEN MsgPrefix \o ToCamelCase(id)
    ELSE ToCamelCase(id)

\* SkipsField comparing the name with the listed names letter by letter
SkipsFieldExactName(c, fieldInfo) ==
    /\ c.Backend = GoI18n
    /\ \E i \in DOMAIN GetPluralPlaceholders(c) : GetPluralPlaceholders(c)[i] = fieldInfo.Name

\* the plural placeholders are left to WithCount() with the go-i18n backend
SkipsField(c, fieldInfo) ==
    c.Backend = GoI18n /\ IsPluralPlaceholder(c, fieldInfo.Name)

\* the Value definition created for a field no placeholder source declares
SynthesizedDef(baseFieldName) ==
    [StructName |-> ToCamelCase(baseFieldName) \o ValueSuffix,
     VarName    |-> baseFieldName \o TemplatesSuffix,
     IsValue    |-> TRUE,
     Items      |-> << [ID |-> baseFieldName,
                        FieldName |-> ToCamelCase(baseFieldName),
                        Templates |-> <<>>] >>]

\* f.String(): the suffixed identity of a field
FieldInfoString(f) ==
    IF f.Suffix # <<>> THEN f.Name \o <<":">> \o f.Suffix ELSE f.Name

\* FieldType looking the field up by its suffixed identity
FieldTypeByIdentity(types, fieldInfo) ==
    IF FieldInfoString(fieldInfo) \in DOMAIN types THEN types[FieldInfoString(fieldInfo)]
    ELSE ToCamelCase(fieldInfo.Name) \o ValueSuffix

\* the type of a field, looked up by its base name
FieldType(types, fieldInfo) ==
    IF fieldInfo.Name \in DOMAIN types THEN types[fieldInfo.Name]
    ELSE ToCamelCase(fieldInfo.Name) \o ValueSuffix

\* PlaceholdersAfterField without the check for an existing definition
PlaceholdersAfterFieldAlways(types, phDefs, fieldInfo) ==
    IF fieldInfo.Name \in DOMAIN types THEN phDefs
    ELSE Append(phDefs, SynthesizedDef(fieldInfo.Name))

\* defs.Placeholders after one field was processed
PlaceholdersAfterField(types, phDefs, fieldInfo) ==
    IF fieldInfo.Name \in DOMAIN types THEN phDefs
    ELSE IF \E i \in DOMAIN phDefs :
               phDefs[i].StructName = ToCamelCase(fieldInfo.Name) \o ValueSuffix
         THEN phDefs
         ELSE Append(phDefs, SynthesizedDef(fieldInfo.Name))

\* the loop over msg.FieldInfos: the fields of the message and defs.Placeholders
RECURSIVE FieldLoop(_, _, _, _, _)
FieldLoop(c, types, fieldInfos, fields, phDefs) ==
    IF fieldInfos = <<>> THEN [fields |-> fields, placeholders |-> phDefs]
    ELSE LET fieldInfo == Head(fieldInfos)
         IN IF SkipsField(c, fieldInfo)
            THEN FieldLoop(c, types, Tail(fieldInfos), fields, phDefs)
            ELSE FieldLoop(c, types, Tail(fieldInfos),
                     Append(fields,
                        [FieldName   |-> GenerateFieldName(fieldInfo),
                         Type        |-> FieldType(types, fieldInfo),
                         TemplateKey |-> GenerateTemplateKey(fieldInfo)]),
                     PlaceholdersAfterField(types, phDefs, fieldInfo))

\* StoredTemplates keeping the templates as authored
StoredTemplatesAsAuthored(msg) == msg.Templates

\* the templates Build stores in the message definition
StoredTemplates(msg) ==
    ProcessMessageTemplatesWithFieldInfos(msg.Templates, msg.FieldInfos)

\* the definition appended for one message source
MessageDef(msg, fields, c) ==
    [ID            |-> msg.ID,
     StructName    |-> generateStructName(msg.ID),
     Fields        |-> fields,
     Templates     |-> StoredTemplates(msg),
     RawTemplates  |-> msg.RawTemplates,
     SupportsCount |-> messageSupportsCount(msg.Templates, c)]

\* SortedMessages leaving the definitions in input order
SortedMessagesInputOrder(msgs) == msgs

\* the final sorts of Build
SortedMessages(msgs) ==
    SortSlice([i \in 1..Len(msgs) |-> [key |-> <<msgs[i].ID>>, val |-> msgs[i]]])

SortedPlaceholders(phs) ==
    SortSlice([i \in 1..Len(phs) |-> [key |-> <<phs[i].StructName>>, val |-> phs[i]]])

(***************************************************************************)
(* parser.validateTemplateComplexity                                       *)
(***************************************************************************)
maxDepth == 5

maxPlaceholderCount == 20

\* the body of the loop over the characters: the two counters after char
CountBrace(depth, deepest, char) ==
    IF char = "{"
    THEN [currentDepth    |-> depth + 1,
          maxCurrentDepth |-> IF depth + 1 > deepest THEN depth + 1 ELSE deepest]
    ELSE IF char = "}"
    THEN [currentDepth |-> depth - 1, maxCurrentDepth |-> deepest]
    ELSE [currentDepth |-> depth, maxCurrentDepth |-> deepest]

\* the loop over the characters: maxCurrentDepth after the characters from i on
RECURSIVE DepthLoop(_, _, _, _)
DepthLoop(t, i, depth, deepest) ==
    IF i > Len(t) THEN deepest
    ELSE LET counted == CountBrace(depth, deepest, t[i])
         IN DepthLoop(t, i + 1, counted.currentDepth, counted.maxCurrentDepth)

\* validateNoCircularPatterns counts the references and returns nil in every case
validateNoCircularPatterns(t) == FALSE

\* the checks after the loop, the nesting depth counted per placeholder opening
ComplexityErrorPerOpening(deepest, t) ==
    \/ deepest > 2 * maxDepth
    \/ Count(t, OpenBraces) > maxPlaceholderCount
    \/ validateNoCircularPatterns(t)

\* the checks after the loop without the count of the placeholder openings
ComplexityErrorDepthOnly(deepest, t) ==
    \/ deepest > maxDepth
    \/ validateNoCircularPatterns(t)

\* the checks after the loop: TRUE iff one of them returns an error
ComplexityError(deepest, t) ==
    \/ deepest > maxDepth
    \/ Count(t, OpenBraces) > maxPlaceholderCount
    \/ validateNoCircularPatterns(t)

\* TRUE iff validateTemplateComplexity returns an error
validateTemplateComplexity(t) == ComplexityError(DepthLoop(t, 1, 0, 0), t)

(***************************************************************************)
(* parser.ParseMessages: one iteration over a message of a decoded file    *)
(***************************************************************************)
\* the validation loop over the locales of one message returns an error
ValidationFailsDuplicatesOnly(localeTemplates) ==
    \E l \in DOMAIN localeTemplates :
        validateNoDuplicatePlaceholders(localeTemplates[l])

ValidationFails(localeTemplates) ==
    \E l \in DOMAIN localeTemplates :
        \/ validateNoDuplicatePlaceholders(localeTemplates[l])
        \/ validateTemplateComplexity(localeTemplates[l])

\* the templates the loop "for _, template := range localeTemplates { ...; break }"
\* can leave in primaryTemplate
PrimaryTemplates(localeTemplates) ==
    IF DOMAIN localeTemplates = {} THEN { <<>> }
    ELSE { localeTemplates[l] : l \in DOMAIN localeTemplates }

\* the message source appended for one message of a file
ParsedMessage(id, localeTemplates, rawTemplates, primaryTemplate) ==
    [ID |-> id, Templates |-> localeTemplates, RawTemplates |-> rawTemplates,
     FieldInfos |-> extractFieldInfos(primaryTemplate)]

\* what ParseMessages returns on an error
ErrorReturnPartial(partial) == [results |-> partial, err |-> TRUE]

ErrorReturn(partial) == [results |-> <<>>, err |-> TRUE]

(***************************************************************************)
(* parser.convertMixedToStringMap / convertPluralToTemplate.  A decoded    *)
(* value is a record: [Type |-> "string", Str], [Type |-> "map", Forms]    *)
(* (map[string]interface{}), [Type |-> "imap", Forms]                      *)
(* (map[interface{}]interface{}, its keys being [IsString, Text]),         *)
(* [Type |-> "int", Int] or [Type |-> "nil"]                               *)
(***************************************************************************)
StringValue(s) == [Type |-> "string", Str |-> s]

\* fmt.Sprintf("%v", n) of a natural number
RECURSIVE FormatInt(_)
FormatInt(n) ==
    IF n < 10 THEN <<Digits[n + 1]>>
    ELSE FormatInt(n \div 10) \o <<Digits[(n % 10) + 1]>>

NilText == <<"<", "n", "i", "l", ">">>

\* fmt.Sprintf("%v", v) of a value that is neither a string nor a map
Sprintf(v) == IF v.Type = "int" THEN FormatInt(v.Int) ELSE NilText

FallbackTemplate ==
    <<"{", "{", ".", "C", "o", "u", "n", "t", "}", "}", " ", "i", "t", "e", "m", "s">>

\* "for _, value := range pluralMap": the first string-valued form in the order
RECURSIVE FirstStringForm(_, _)
FirstStringForm(pluralMap, order) ==
    IF order = <<>> THEN FallbackTemplate
    ELSE IF pluralMap[Head(order)].Type = "string" THEN pluralMap[Head(order)].Str
    ELSE FirstStringForm(pluralMap, Tail(order))

\* convertPluralToTemplate preferring "one" to "other"
convertPluralPreferringOne(pluralMap, order) ==
    IF "one" \in DOMAIN pluralMap /\ pluralMap["one"].Type = "string"
    THEN pluralMap["one"].Str
    ELSE IF "other" \in DOMAIN pluralMap /\ pluralMap["other"].Type = "string"
    THEN pluralMap["other"].Str
    ELSE FirstStringForm(pluralMap, order)

\* convertPluralToTemplate, the map being iterated over in the given order
convertPluralToTemplate(pluralMap, order) ==
    IF "other" \in DOMAIN pluralMap /\ pluralMap["other"].Type = "string"
    THEN pluralMap["other"].Str
    ELSE IF "one" \in DOMAIN pluralMap /\ pluralMap["one"].Type = "string"
    THEN pluralMap["one"].Str
    ELSE FirstStringForm(pluralMap, order)

\* the map[string]interface{} built from the string keys of a
\* map[interface{}]interface{}
StringMap(forms) ==
    LET keys == { k.Text : k \in { j \in DOMAIN forms : j.IsString } }
    IN [t \in keys |-> forms[[IsString |-> TRUE, Text |-> t]]]

\* the templates the type switch of convertMixedToStringMap can store for a value
ConvertedValues(value) ==
    CASE value.Type = "string" -> { value.Str }
      [] value.Type = "map" ->
            { convertPluralToTemplate(value.Forms, order) :
                order \in KeyOrders(value.Forms) }
      [] value.Type = "imap" ->
            { convertPluralToTemplate(StringMap(value.Forms), order) :
                order \in KeyOrders(StringMap(value.Forms)) }
      [] OTHER -> { Sprintf(value) }

\* the results convertMixedToStringMap can return for the locales of one message
convertMixedToStringMap(localeData) ==
    { f \in [DOMAIN localeData ->
                UNION { ConvertedValues(localeData[l]) : l \in DOMAIN localeData }] :
        \A l \in DOMAIN localeData : f[l] \in ConvertedValues(localeData[l]) }

(***************************************************************************)
(* utils.SafeGoIdentifier                                                  *)
(***************************************************************************)
goReservedWords ==
    { <<"b", "r", "e", "a", "k">>, <<"c", "a", "s", "e">>, <<"c", "h", "a", "n">>,
      <<"c", "o", "n", "s", "t">>, <<"c", "o", "n", "t", "i", "n", "u", "e">>, <<"d", "e", "f", "a", "u", "l", "t">>,
      <<"d", "e", "f", "e", "r">>, <<"e", "l", "s", "e">>, <<"f", "a", "l", "l", "t", "h", "r", "o", "u", "g", "h">>,
      <<"f", "o", "r">>, <<"f", "u", "n", "c">>, <<"g", "o">>,
      <<"g", "o", "t", "o">>, <<"i", "f">>, <<"i", "m", "p", "o", "r", "t">>,
      <<"i", "n", "t", "e", "r", "f", "a", "c", "e">>, <<"m", "a", "p">>, <<"p", "a", "c", "k", "a", "g", "e">>,
      <<"r", "a", "n", "g", "e">>, <<"r", "e", "t", "u", "r", "n">>, <<"s", "e", "l", "e", "c", "t">>,
      <<"s", "t", "r", "u", "c", "t">>, <<"s", "w", "i", "t", "c", "h">>, <<"t", "y", "p", "e">>,
      <<"v", "a", "r">> }

\* SafeGoIdentifier looking the name up as it is written
SafeGoIdentifierExactCase(name) ==
    IF name \in goReservedWords THEN name \o <<"_">> ELSE name

SafeGoIdentifier(name) ==
    IF ToLower(name) \in goReservedWords THEN name \o <<"_">> ELSE name

(***************************************************************************)
(* parser.ParsePlaceholders                                                *)
(***************************************************************************)
IsLetter(c) == PosIn(c, LowerLetters) > 0 \/ PosIn(c, UpperLetters) > 0

\* isValidGoIdentifier without the test of the first character
isValidGoIdentifierAnyStart(name) ==
    /\ name # <<>>
    /\ \A i \in 1..Len(name) : IsLetter(name[i]) \/ IsDigit(name[i]) \/ name[i] = "_"

\* ^[a-zA-Z_] and ^[a-zA-Z0-9_]+$ both match a non-empty name
isValidGoIdentifier(name) ==
    /\ name # <<>>
    /\ IsLetter(name[1]) \/ name[1] = "_"
    /\ \A i \in 1..Len(name) : IsLetter(name[i]) \/ IsDigit(name[i]) \/ name[i] = "_"

UnknownLocale == <<"u", "n", "k", "n", "o", "w", "n">>

detectLocale(filename) ==
    LET parts == Split(filename, ".")
    IN IF Len(parts) >= 2 THEN parts[2] ELSE UnknownLocale

\* kind := strings.Split(base, ".")[0]
KindOfFile(base) == Split(base, ".")[1]

\* the id -> locale -> value map decoded from a file: a compound file holds
\* the locales itself, a simple file is of the locale its name tells
ParsedFile(file, compound) ==
    IF compound THEN file.Data
    ELSE [id \in DOMAIN file.Data |-> (detectLocale(file.Base) :> file.Data[id])]

\* kindMap after the items of one file were merged into it
MergedKindMap(kinds, kind, parsed) ==
    LET old == IF kind \in DOMAIN kinds THEN kinds[kind] ELSE <<>>
        items == [id \in DOMAIN old \cup DOMAIN parsed |->
                    IF id \notin DOMAIN parsed THEN old[id]
                    ELSE IF id \notin DOMAIN old THEN parsed[id]
                    ELSE parsed[id] @@ old[id]]
    IN (kind :> items) @@ kinds

\* one iteration of the loop over kindMap returns an error
KindFailsValidation(kind, items) ==
    \/ ~isValidGoIdentifier(kind)
    \/ \E id \in DOMAIN items : ~isValidGoIdentifier(id)

(***************************************************************************)
(* generator.Run: the validation of the configuration                      *)
(***************************************************************************)
\* the first complaint about the configuration, "" when there is none;
\* the locale list is not looked at
validateConfigWithoutLocales(c) ==
    IF c.Nil THEN "configuration cannot be nil"
    ELSE IF c.MessagesGlob = "" THEN "messages glob pattern cannot be empty"
    ELSE IF c.PlaceholdersGlob = "" THEN "placeholders glob pattern cannot be empty"
    ELSE IF c.OutputDir = "" THEN "output directory cannot be empty"
    ELSE ""

\* the first complaint about the configuration, "" when there is none
validateConfig(c) ==
    IF c.Nil THEN "configuration cannot be nil"
    ELSE IF c.MessagesGlob = "" THEN "messages glob pattern cannot be empty"
    ELSE IF c.PlaceholdersGlob = "" THEN "placeholders glob pattern cannot be empty"
    ELSE IF c.OutputDir = "" THEN "output directory cannot be empty"
    ELSE IF Len(c.Locales) = 0 THEN "no locales specified in configuration"
    ELSE ""

\* a stage entered and how it ended: "ok", "error", or "panic" (recovered by
\* the deferred function, which makes it the returned error)
Entered(stage, outcome) == [Stage |-> stage, Outcome |-> outcome]

(***************************************************************************)
(* Inputs of the parser: templates assembled from at most MaxBlocks pieces *)
(***************************************************************************)
MaxBlocks == 2

TextPieces == { <<"t">>, OpenBraces, CloseBraces, <<"{">> }
Leads  == { <<".", "x">>, <<" ", ".", " ", "x", " ">>, <<".", "y">>, <<"x">>, <<".">> }
Sufs   == { <<>>, <<":", "a">>, <<" ", ":", " ", "b", " ">> }
Chains == { <<>>, <<"|", "u", ":">> }
FieldBlocks == { OpenBraces \o l \o s \o c \o CloseBraces :
                     l \in Leads, s \in Sufs, c \in Chains }
Blocks == TextPieces \cup FieldBlocks

RECURSIVE SeqsUpTo(_, _)
SeqsUpTo(S, n) ==
    IF n = 0 THEN { <<>> }
    ELSE LET shorter == SeqsUpTo(S, n - 1)
         IN shorter \cup { Append(q, e) : q \in {r \in shorter : Len(r) = n - 1}, e \in S }

ParserTemplates == { Join(q) : q \in SeqsUpTo(Blocks, MaxBlocks) }

(***************************************************************************)
(* Initial values of the variables a specification does not use            *)
(***************************************************************************)
NoDefs == [Messages |-> <<>>, Placeholders |-> <<>>]
NoCfg  == [Backend |-> "", PluralPlaceholders |-> <<>>]

ParserIdle ==
    /\ tmpl = <<>> /\ remaining = <<>> /\ results = <<>>
    /\ epc = "idle" /\ dupErr = FALSE /\ complexErr = FALSE
    /\ charIndex = 0 /\ currentDepth = 0 /\ maxCurrentDepth = 0

IdentIdle ==
    /\ fi = FieldInfo(<<>>, <<>>) /\ genName = <<>> /\ genKey = <<>>
    /\ genStruct = <<>> /\ ipc = "idle"

BuildIdle ==
    /\ messages = <<>> /\ placeholders = <<>> /\ locales = <<>> /\ cfg = NoCfg
    /\ placeholderTypes = <<>> /\ defs = NoDefs
    /\ bpc = "idle" /\ run = 0 /\ firstDefs = NoDefs

NoReturn == [results |-> <<>>, err |-> FALSE]

MessageFilesIdle ==
    /\ pmFiles = <<>> /\ pmFile = 0 /\ pmPending = {} /\ pmResults = <<>>
    /\ pmRet = NoReturn /\ pmpc = "idle"

PlaceholderFilesIdle ==
    /\ phFiles = <<>> /\ phCompound = FALSE /\ phFile = 0
    /\ kindMap = <<>> /\ phResults = <<>>
    /\ phRet = NoReturn /\ phpc = "idle"

NormalizeIdle ==
    /\ rawData = <<>> /\ flatData = <<>> /\ supportsCount = FALSE
    /\ firstFlat = <<>> /\ ncfg = NoCfg /\ npc = "idle"

SafeIdle ==
    /\ ident = <<>> /\ escaped = <<>> /\ escapedTwice = <<>> /\ spc = "idle"

PluralIdle ==
    /\ configured = <<>> /\ pluralCfg = NoCfg /\ pname = <<>>
    /\ isPlural = FALSE /\ ppc = "idle"

NilCfg == [Nil |-> TRUE]

GeneratorIdle ==
    /\ runCfg = NilCfg /\ found = 0 /\ messageCount = 0 /\ executed = <<>>
    /\ returnErr = "" /\ dirCreated = FALSE /\ fileWritten = FALSE
    /\ gpc = "idle"

RerunIdle == pmRun = 0 /\ firstRet = NoReturn

CallsIdle == PluralIdle /\ GeneratorIdle /\ RerunIdle

(***************************************************************************)
(* The parser on one template                                              *)
(***************************************************************************)
InitParser ==
    /\ tmpl \in ParserTemplates
    /\ remaining = tmpl
    /\ results = <<>>
    /\ epc = "scan"
    /\ dupErr = FALSE
    /\ complexErr = FALSE
    /\ charIndex = 0 /\ currentDepth = 0 /\ maxCurrentDepth = 0
    /\ IdentIdle /\ BuildIdle
    /\ MessageFilesIdle /\ PlaceholderFilesIdle /\ NormalizeIdle /\ SafeIdle /\ CallsIdle

\* extractFieldInfos: one iteration of its loop
ExtractStep ==
    /\ epc = "scan"
    /\ LET it == ExtractIteration(remaining, results)
       IN /\ remaining' = it.remaining
          /\ results' = it.results
          /\ epc' = IF it.done THEN "done" ELSE "scan"
    /\ UNCHANGED <<tmpl, dupErr, complexErr, depthVars, identVars, buildVars,
                   inputVars, utilVars>>

\* validateNoDuplicatePlaceholders(template)
ValidateDuplicates ==
    /\ epc = "done"
    /\ dupErr' = validateNoDuplicatePlaceholders(tmpl)
    /\ epc' = "validated"
    /\ UNCHANGED <<tmpl, remaining, results, complexErr, depthVars, identVars,
                   buildVars, inputVars, utilVars>>

NextParser == ExtractStep \/ ValidateDuplicates

SpecParser == InitParser /\ [][NextParser]_vars

\* the loop and the call after it are not suspended for ever: weak fairness
\* of NextParser (WF_vars), written out. A step of NextParser is possible
\* exactly while epc is "scan" or "done" (ExtractIteration is total and its
\* step changes epc or remaining), so NextParser is disabled infinitely often
\* only by epc = "validated"
SpecParserFair ==
    SpecParser /\ ([]<>(epc = "validated") \/ []<><<NextParser>>_vars)

(***************************************************************************)
(* Identifier derivation on one FieldInfo                                  *)
(***************************************************************************)
MaxNameLen == 3

NameChars == { "a", "B", "_", "1" }
Names == SeqsUpTo(NameChars, MaxNameLen)

InitIdent ==
    /\ fi \in { FieldInfo(n, s) : n \in Names, s \in Names }
    /\ genName = <<>>
    /\ genKey = <<>>
    /\ genStruct = <<>>
    /\ ipc = "new"
    /\ ParserIdle /\ BuildIdle
    /\ MessageFilesIdle /\ PlaceholderFilesIdle /\ NormalizeIdle /\ SafeIdle /\ CallsIdle

\* f.GenerateFieldName()
CallGenerateFieldName ==
    /\ ipc = "new"
    /\ genName' = GenerateFieldName(fi)
    /\ ipc' = "named"
    /\ UNCHANGED <<fi, genKey, genStruct, parserVars, buildVars, inputVars, utilVars>>

\* f.GenerateTemplateKey()
CallGenerateTemplateKey ==
    /\ ipc = "named"
    /\ genKey' = GenerateTemplateKey(fi)
    /\ ipc' = "keyed"
    /\ UNCHANGED <<fi, genName, genStruct, parserVars, buildVars, inputVars, utilVars>>

\* Build on a message whose ID is the name: structName := generateStructName(msg.ID),
\* stored as the StructName of the message definition
CallGenerateStructName ==
    /\ ipc = "keyed"
    /\ genStruct' = MessageDef(ParsedMessage(fi.Name, <<>>, <<>>, <<>>), <<>>, NoCfg).StructName
    /\ ipc' = "structured"
    /\ UNCHANGED <<fi, genName, genKey, parserVars, buildVars, inputVars, utilVars>>

NextIdent == CallGenerateFieldName \/ CallGenerateTemplateKey \/ CallGenerateStructName

SpecIdent == InitIdent /\ [][NextIdent]_vars

(***************************************************************************)
(* Inputs of Build: placeholder sources as ParsePlaceholders returns them  *)
(* (distinct kinds, in any order) and message sources as ParseMessages     *)
(* returns them (every template passed validation, FieldInfos extracted    *)
(* from the template of one locale), of a total size of at most MaxSize:   *)
(* one for every kind, item, message, template piece and second locale     *)
(***************************************************************************)
MaxSize == 4

KindNames == { <<"x">>, <<"X">> }
ItemIDs   == { <<"x">>, <<"u">> }
NoLocales == [l \in {} |-> <<>>]
LocaleMaps == { NoLocales, [l \in {"en"} |-> <<"z">>], [l \in {"ja"} |-> <<"z">>] }

ItemMaps(b) ==
    UNION { [S -> LocaleMaps] : S \in {T \in SUBSET ItemIDs : Cardinality(T) <= b} }

PhSources(b) ==
    IF b < 1 THEN {}
    ELSE { [Kind |-> k, Items |-> m] : k \in KindNames, m \in ItemMaps(b - 1) }

PhCost(p) == 1 + Cardinality(DOMAIN p.Items)

RECURSIVE PhLists(_, _)
PhLists(b, used) ==
    { <<>> } \cup
    UNION { { <<p>> \o rest : rest \in PhLists(b - PhCost(p), used \cup {p.Kind}) } :
              p \in {q \in PhSources(b) : q.Kind \notin used} }

RECURSIVE PhListCost(_)
PhListCost(list) ==
    IF list = <<>> THEN 0 ELSE PhCost(Head(list)) + PhListCost(Tail(list))

FieldPiece(name, suffix, chain) ==
    OpenBraces \o <<".">> \o name
        \o (IF suffix = <<>> THEN <<>> ELSE <<":">> \o suffix) \o chain \o CloseBraces

CountName == <<"C", "o", "u", "n", "t">>
ChainF == <<" ", "|", " ", "f">>

BuildPieces ==
    { <<"t">>,
      FieldPiece(<<"x">>, <<>>, <<>>),
      FieldPiece(<<"x">>, <<"a">>, <<>>),
      FieldPiece(<<"x">>, <<"b">>, ChainF),
      FieldPiece(CountName, <<>>, <<>>) }

\* the templates of at most b pieces that pass validateNoDuplicatePlaceholders,
\* each with its number of pieces
ValidTemplates(b) ==
    IF b < 0 THEN {}
    ELSE { w \in { [cost |-> Len(q), text |-> Join(q)] : q \in SeqsUpTo(BuildPieces, b) } :
             ~validateNoDuplicatePlaceholders(w.text) }

MessageIDs == { <<"a">>, <<"b">> }

MessageSource(id, templates, locale) ==
    [ID |-> id, Templates |-> templates, RawTemplates |-> templates,
     FieldInfos |-> extractFieldInfos(templates[locale])]

\* the message sources of a size of at most b, each with its size
MsgChoices(b) ==
    IF b < 1 THEN {}
    ELSE { [cost |-> 1 + e.cost,
            msg  |-> MessageSource(id, [l \in {"en"} |-> e.text], "en")] :
              id \in MessageIDs, e \in ValidTemplates(b - 1) }
         \cup
         UNION { { [cost |-> 2 + e.cost + j.cost,
                    msg  |-> MessageSource(id,
                                [l \in {"en", "ja"} |-> IF l = "en" THEN e.text ELSE j.text],
                                first)] :
                      id \in MessageIDs, first \in {"en", "ja"},
                      j \in ValidTemplates(b - 2 - e.cost) } :
                 e \in ValidTemplates(b - 2) }

RECURSIVE MsgLists(_)
MsgLists(b) ==
    { <<>> } \cup
    UNION { { <<w.msg>> \o rest : rest \in MsgLists(b - w.cost) } : w \in MsgChoices(b) }

LocaleLists == { <<"en">>, <<"ja", "en">> }
Backends == { GoI18n, "builtin" }

InitBuild ==
    /\ placeholders \in PhLists(MaxSize, {})
    /\ locales \in LocaleLists
    /\ messages \in MsgLists(MaxSize - PhListCost(placeholders) - (Len(locales) - 1))
    /\ cfg \in { [Backend |-> b, PluralPlaceholders |-> <<>>] : b \in Backends }
    /\ placeholderTypes = <<>>
    /\ defs = NoDefs
    /\ bpc = "placeholders"
    /\ run = 1
    /\ firstDefs = NoDefs
    /\ ParserIdle /\ IdentIdle
    /\ MessageFilesIdle /\ PlaceholderFilesIdle /\ NormalizeIdle /\ SafeIdle /\ CallsIdle

(***************************************************************************)
(* model.Build, step by step                                               *)
(***************************************************************************)
\* one iteration of the loop over the placeholder sources
BuildPlaceholder ==
    /\ bpc = "placeholders"
    /\ Len(defs.Placeholders) < Len(placeholders)
    /\ LET ph == placeholders[Len(defs.Placeholders) + 1]
       IN /\ \E order \in KeyOrders(ph.Items) :
                defs' = [defs EXCEPT !.Placeholders =
                            Append(@, PlaceholderDef(ph, order, PrimaryLocale(locales)))]
          /\ placeholderTypes' = MapKind(placeholderTypes, ph)
    /\ UNCHANGED <<messages, placeholders, locales, cfg, bpc, run, firstDefs,
                   parserVars, identVars,
                   inputVars, utilVars>>

\* the loop over the placeholder sources is over
BuildPlaceholdersDone ==
    /\ bpc = "placeholders"
    /\ Len(defs.Placeholders) = Len(placeholders)
    /\ bpc' = "messages"
    /\ UNCHANGED <<messages, placeholders, locales, cfg, placeholderTypes, defs,
                   run, firstDefs, parserVars, identVars,
                   inputVars, utilVars>>

\* one iteration of the loop over the message sources
BuildMessage ==
    /\ bpc = "messages"
    /\ Len(defs.Messages) < Len(messages)
    /\ LET msg  == messages[Len(defs.Messages) + 1]
           loop == FieldLoop(cfg, placeholderTypes, msg.FieldInfos, <<>>,
                             defs.Placeholders)
       IN defs' = [Messages     |-> Append(defs.Messages, MessageDef(msg, loop.fields, cfg)),
                   Placeholders |-> loop.placeholders]
    /\ cfg' = IF cfg.Backend = GoI18n
              THEN [cfg EXCEPT !.PluralPlaceholders = DefaultedPluralPlaceholders(cfg)]
              ELSE cfg
    /\ UNCHANGED <<messages, placeholders, locales, placeholderTypes, bpc, run,
                   firstDefs, parserVars, identVars,
                   inputVars, utilVars>>

\* the final sorts and the return
BuildSort ==
    /\ bpc = "messages"
    /\ Len(defs.Messages) = Len(messages)
    /\ defs' = [Messages     |-> SortedMessages(defs.Messages),
                Placeholders |-> SortedPlaceholders(defs.Placeholders)]
    /\ bpc' = "done"
    /\ UNCHANGED <<messages, placeholders, locales, cfg, placeholderTypes, run,
                   firstDefs, parserVars, identVars,
                   inputVars, utilVars>>

NextBuild == BuildPlaceholder \/ BuildPlaceholdersDone \/ BuildMessage \/ BuildSort

Spec == InitBuild /\ [][NextBuild]_vars

\* Build is called once more with the same arguments
BuildAgain ==
    /\ bpc = "done"
    /\ run = 1
    /\ firstDefs' = defs
    /\ defs' = NoDefs
    /\ placeholderTypes' = <<>>
    /\ bpc' = "placeholders"
    /\ run' = 2
    /\ UNCHANGED <<messages, placeholders, locales, cfg, parserVars, identVars,
                   inputVars, utilVars>>

NextTwoRuns == NextBuild \/ BuildAgain

SpecTwoRuns == InitBuild /\ [][NextTwoRuns]_vars

(***************************************************************************)
(* validateTemplateComplexity on one template: up to MaxNest opening       *)
(* braces, closed or not, then up to MaxOpenings copies of one unit        *)
(***************************************************************************)
MaxNest == 7

MaxOpenings == 22

RECURSIVE Rep(_, _)
Rep(piece, n) == IF n = 0 THEN <<>> ELSE piece \o Rep(piece, n - 1)

Units == { OpenBraces \o CloseBraces, FieldPiece(<<"x">>, <<"a">>, <<>>), OpenBraces }

ComplexityTemplates ==
    UNION { { Rep(<<"}">>, c) \o Rep(<<"{">>, a) \o Rep(<<"}">>, b) \o Rep(u, n) :
                c \in {0, 1}, b \in {0, a}, u \in Units, n \in 0..MaxOpenings } :
            a \in 0..MaxNest }

InitComplexity ==
    /\ tmpl \in ComplexityTemplates
    /\ remaining = <<>>
    /\ results = <<>>
    /\ epc = "complexity"
    /\ dupErr = FALSE
    /\ complexErr = FALSE
    /\ charIndex = 1 /\ currentDepth = 0 /\ maxCurrentDepth = 0
    /\ IdentIdle /\ BuildIdle
    /\ MessageFilesIdle /\ PlaceholderFilesIdle /\ NormalizeIdle /\ SafeIdle /\ CallsIdle

\* validateTemplateComplexity(template): one iteration of the loop over the
\* characters
CountDepth ==
    /\ epc = "complexity"
    /\ charIndex <= Len(tmpl)
    /\ LET counted == CountBrace(currentDepth, maxCurrentDepth, tmpl[charIndex])
       IN /\ currentDepth' = counted.currentDepth
          /\ maxCurrentDepth' = counted.maxCurrentDepth
    /\ charIndex' = charIndex + 1
    /\ UNCHANGED <<tmpl, remaining, results, epc, dupErr, complexErr, identVars,
                   buildVars, inputVars, utilVars>>

\* validateTemplateComplexity(template): the checks after the loop
ValidateComplexity ==
    /\ epc = "complexity"
    /\ charIndex > Len(tmpl)
    /\ complexErr' = ComplexityError(maxCurrentDepth, tmpl)
    /\ epc' = "checked"
    /\ UNCHANGED <<tmpl, remaining, results, dupErr, depthVars, identVars,
                   buildVars, inputVars, utilVars>>

NextComplexity == CountDepth \/ ValidateComplexity

SpecComplexity == InitComplexity /\ [][NextComplexity]_vars

(***************************************************************************)
(* validateTemplateComplexity on one template and, as in ParseMessages,    *)
(* extractFieldInfos on the template if the validation let it pass         *)
(***************************************************************************)
\* fieldInfos := extractFieldInfos(primaryTemplate), reached only without a
\* validation error: the entry of extractFieldInfos
StartExtract ==
    /\ epc = "checked"
    /\ ~complexErr
    /\ remaining' = tmpl
    /\ results' = <<>>
    /\ epc' = "scan"
    /\ UNCHANGED <<tmpl, dupErr, complexErr, depthVars, identVars, buildVars,
                   inputVars, utilVars>>

NextValidatedExtract == NextComplexity \/ StartExtract \/ ExtractStep

SpecValidatedExtract == InitComplexity /\ [][NextValidatedExtract]_vars

(***************************************************************************)
(* ParseMessages over the files a pattern matches, then Build on what it   *)
(* returned.  A file is undecodable or holds message ID -> locale ->       *)
(* template; the files are of a total size of at most MaxFileSize: one for *)
(* every file and one for every template                                   *)
(***************************************************************************)
MaxFileSize == 4

TooDeep == Rep(<<"{">>, maxDepth + 1)

UpperCountName == <<"C", "O", "U", "N", "T">>

FileTemplates ==
    { FieldPiece(<<"x">>, <<>>, <<>>) \o FieldPiece(CountName, <<"a">>, <<>>),
      FieldPiece(UpperCountName, <<>>, <<>>),
      FieldPiece(<<"x">>, <<>>, <<>>) \o FieldPiece(<<"x">>, <<>>, <<>>),
      TooDeep }

FileLocales == { "en", "ja" }

\* the locale -> template maps of at most b templates
LocaleTemplates(b) ==
    UNION { [S -> FileTemplates] :
              S \in {T \in SUBSET FileLocales : T # {} /\ Cardinality(T) <= b} }

RECURSIVE FileTemplateMaps(_, _)
FileTemplateMaps(ids, b) ==
    IF ids = {} THEN { <<>> }
    ELSE LET id == CHOOSE i \in ids : TRUE
             rest == ids \ {id}
         IN FileTemplateMaps(rest, b) \cup
            UNION { { (id :> lt) @@ m :
                        m \in FileTemplateMaps(rest, b - Cardinality(DOMAIN lt)) } :
                    lt \in LocaleTemplates(b) }

FileCost(f) ==
    LET RECURSIVE Sum(_)
        Sum(ids) == IF ids = {} THEN 0
                    ELSE LET id == CHOOSE i \in ids : TRUE
                         IN Cardinality(DOMAIN f.Templates[id]) + Sum(ids \ {id})
    IN 1 + Sum(DOMAIN f.Templates)

FileDatas(b) ==
    IF b < 1 THEN {}
    ELSE { [Err |-> TRUE, Templates |-> <<>>] } \cup
         { [Err |-> FALSE, Templates |-> m] : m \in FileTemplateMaps(MessageIDs, b - 1) }

RECURSIVE FileLists(_)
FileLists(b) ==
    { <<>> } \cup
    UNION { { <<f>> \o rest : rest \in FileLists(b - FileCost(f)) } : f \in FileDatas(b) }

InitMessages ==
    /\ pmFiles \in FileLists(MaxFileSize)
    /\ pmFile = 0
    /\ pmPending = {}
    /\ pmResults = <<>>
    /\ pmRet = NoReturn
    /\ pmpc = "glob"
    /\ ParserIdle /\ IdentIdle /\ BuildIdle
    /\ PlaceholderFilesIdle /\ NormalizeIdle /\ SafeIdle /\ CallsIdle

\* filepath.Glob and the test for no file at all
GlobMessageFiles ==
    /\ pmpc = "glob"
    /\ IF Len(pmFiles) = 0
       THEN /\ pmRet' = ErrorReturn(pmResults)
            /\ pmpc' = "returned"
            /\ UNCHANGED pmFile
       ELSE /\ pmFile' = 1
            /\ pmpc' = "file"
            /\ UNCHANGED pmRet
    /\ UNCHANGED <<pmFiles, pmPending, pmResults, parserVars, identVars, buildVars,
                   placeholderFileVars, utilVars>>

\* os.Open and decodeMessageFileWithRaw of the next file
DecodeMessageFile ==
    /\ pmpc = "file"
    /\ pmFile <= Len(pmFiles)
    /\ IF pmFiles[pmFile].Err
       THEN /\ pmRet' = ErrorReturn(pmResults)
            /\ pmpc' = "returned"
            /\ UNCHANGED pmPending
       ELSE /\ pmPending' = DOMAIN pmFiles[pmFile].Templates
            /\ pmpc' = "messages"
            /\ UNCHANGED pmRet
    /\ UNCHANGED <<pmFiles, pmFile, pmResults, parserVars, identVars, buildVars,
                   placeholderFileVars, utilVars>>

\* one iteration of "for id, localeTemplates := range data.Templates"
ParseMessage ==
    /\ pmpc = "messages"
    /\ \E id \in pmPending :
          LET localeTemplates == pmFiles[pmFile].Templates[id]
          IN IF ValidationFails(localeTemplates)
             THEN /\ pmRet' = ErrorReturn(pmResults)
                  /\ pmpc' = "returned"
                  /\ UNCHANGED <<pmPending, pmResults>>
             ELSE /\ \E primaryTemplate \in PrimaryTemplates(localeTemplates) :
                        pmResults' = Append(pmResults,
                            ParsedMessage(id, localeTemplates, localeTemplates,
                                          primaryTemplate))
                  /\ pmPending' = pmPending \ {id}
                  /\ UNCHANGED <<pmRet, pmpc>>
    /\ UNCHANGED <<pmFiles, pmFile, parserVars, identVars, buildVars,
                   placeholderFileVars, utilVars>>

\* the messages of the file are exhausted
MessageFileDone ==
    /\ pmpc = "messages"
    /\ pmPending = {}
    /\ pmFile' = pmFile + 1
    /\ pmpc' = "file"
    /\ UNCHANGED <<pmFiles, pmPending, pmResults, pmRet, parserVars, identVars,
                   buildVars, placeholderFileVars, utilVars>>

\* return results, nil
ReturnMessages ==
    /\ pmpc = "file"
    /\ pmFile > Len(pmFiles)
    /\ pmRet' = [results |-> pmResults, err |-> FALSE]
    /\ pmpc' = "returned"
    /\ UNCHANGED <<pmFiles, pmFile, pmPending, pmResults, parserVars, identVars,
                   buildVars, placeholderFileVars, utilVars>>

NextMessages ==
    \/ GlobMessageFiles \/ DecodeMessageFile \/ ParseMessage
    \/ MessageFileDone \/ ReturnMessages

\* model.Build is called with the messages ParseMessages returned
StartBuild ==
    /\ pmpc = "returned"
    /\ ~pmRet.err
    /\ pmpc' = "built"
    /\ messages' = pmRet.results
    /\ placeholders' \in PhLists(1, {})
    /\ locales' = <<"en">>
    /\ cfg' \in { [Backend |-> b, PluralPlaceholders |-> <<>>] : b \in Backends }
    /\ bpc' = "placeholders"
    /\ run' = 1
    /\ UNCHANGED <<placeholderTypes, defs, firstDefs, pmFiles, pmFile, pmPending,
                   pmResults, pmRet, parserVars, identVars, placeholderFileVars,
                   utilVars>>

NextGenerate == NextMessages \/ StartBuild \/ NextBuild

SpecGenerate == InitMessages /\ [][NextGenerate]_vars

(***************************************************************************)
(* Build called twice, the second time with the placeholder sources in     *)
(* another order (ParsePlaceholders returns them in the iteration order of *)
(* a map), on one message with one field                                   *)
(***************************************************************************)
OneFieldMessages ==
    { <<MessageSource(id, [l \in {"en"} |-> piece], "en")>> :
        id \in MessageIDs,
        piece \in { FieldPiece(<<"x">>, <<>>, <<>>), FieldPiece(<<"x">>, <<"a">>, <<>>) } }

Reorderings(list) ==
    { [i \in DOMAIN list |-> list[p[i]]] :
        p \in { q \in [DOMAIN list -> DOMAIN list] :
                  \A i, j \in DOMAIN list : i # j => q[i] # q[j] } }

\* a kind with two items, the text of one of them empty in "en"
EmptyTextSources ==
    { <<[Kind |-> k,
         Items |-> [id \in ItemIDs |-> IF id = e THEN [l \in {"en"} |-> <<>>] ELSE m]]>> :
        k \in KindNames, e \in ItemIDs, m \in LocaleMaps }

InitBuildPermuted ==
    /\ placeholders \in PhLists(MaxSize - 1, {}) \cup EmptyTextSources
    /\ locales \in LocaleLists \cup { <<>> }
    /\ messages \in OneFieldMessages
    /\ cfg \in { [Backend |-> b, PluralPlaceholders |-> <<>>] : b \in Backends }
    /\ placeholderTypes = <<>>
    /\ defs = NoDefs
    /\ bpc = "placeholders"
    /\ run = 1
    /\ firstDefs = NoDefs
    /\ ParserIdle /\ IdentIdle
    /\ MessageFilesIdle /\ PlaceholderFilesIdle /\ NormalizeIdle /\ SafeIdle /\ CallsIdle

\* Build is called once more, the placeholder sources permuted
BuildPermuted ==
    /\ bpc = "done"
    /\ run = 1
    /\ placeholders' \in Reorderings(placeholders)
    /\ firstDefs' = defs
    /\ defs' = NoDefs
    /\ placeholderTypes' = <<>>
    /\ bpc' = "placeholders"
    /\ run' = 2
    /\ UNCHANGED <<messages, locales, cfg, parserVars, identVars,
                   inputVars, utilVars>>

NextPermuted == NextBuild \/ BuildPermuted

SpecPermuted == InitBuildPermuted /\ [][NextPermuted]_vars

(***************************************************************************)
(* ParseMessages called twice on the same files                            *)
(***************************************************************************)
InitParseTwice ==
    /\ pmFiles \in FileLists(MaxFileSize)
    /\ pmFile = 0
    /\ pmPending = {}
    /\ pmResults = <<>>
    /\ pmRet = NoReturn
    /\ pmpc = "glob"
    /\ pmRun = 1
    /\ firstRet = NoReturn
    /\ ParserIdle /\ IdentIdle /\ BuildIdle
    /\ PlaceholderFilesIdle /\ NormalizeIdle /\ SafeIdle
    /\ PluralIdle /\ GeneratorIdle

\* ParseMessages is called once more with the same pattern
ParseMessagesAgain ==
    /\ pmpc = "returned"
    /\ pmRun = 1
    /\ firstRet' = pmRet
    /\ pmRun' = 2
    /\ pmRet' = NoReturn
    /\ pmResults' = <<>>
    /\ pmFile' = 0
    /\ pmPending' = {}
    /\ pmpc' = "glob"
    /\ UNCHANGED <<pmFiles, parserVars, identVars, buildVars, placeholderFileVars,
                   normalizeVars, safeVars, pluralVars, generatorVars>>

NextParseTwice == NextMessages \/ ParseMessagesAgain

SpecParseTwice == InitParseTwice /\ [][NextParseTwice]_vars

(***************************************************************************)
(* Normalization of the raw templates of one message, then the plural      *)
(* detection of Build on the flattened templates.  A plural map has at     *)
(* most MaxForms forms.                                                    *)
(***************************************************************************)
MaxForms == 2

PlainTexts ==
    { <<"t">>,
      FieldPiece(CountName, <<>>, <<>>),
      FieldPiece(UpperCountName, <<>>, <<>>),
      FieldPiece(<<"n">>, <<"a">>, <<>>),
      <<"o", "n", "e", ":">> }

FormTexts == { <<"t">>, <<"u">>, FieldPiece(CountName, <<>>, <<>>) }

FormValues ==
    { StringValue(s) : s \in FormTexts } \cup { [Type |-> "int", Int |-> 42], [Type |-> "nil"] }

Categories == { "other", "one", "few", "many" }

InterfaceKeys ==
    { [IsString |-> TRUE, Text |-> "other"], [IsString |-> TRUE, Text |-> "few"],
      [IsString |-> FALSE, Text |-> "1"] }

FormMaps(keys) ==
    UNION { [S -> FormValues] : S \in {T \in SUBSET keys : Cardinality(T) <= MaxForms} }

RawValues ==
    { StringValue(s) : s \in PlainTexts }
    \cup { [Type |-> "int", Int |-> 42], [Type |-> "nil"] }
    \cup { [Type |-> "map", Forms |-> m] : m \in FormMaps(Categories) }
    \cup { [Type |-> "imap", Forms |-> m] : m \in FormMaps(InterfaceKeys) }

RawLocaleData ==
    { [l \in {"en"} |-> v] : v \in RawValues }
    \cup { [l \in {"en", "ja"} |-> IF l = "en" THEN v ELSE StringValue(s)] :
             v \in RawValues, s \in { <<"t">>, FieldPiece(<<"n">>, <<>>, <<>>) } }

PluralConfigs ==
    { [Backend |-> b, PluralPlaceholders |-> p] :
        b \in Backends, p \in { <<>>, << <<"N">> >> } }

InitNormalize ==
    /\ rawData \in RawLocaleData
    /\ ncfg \in PluralConfigs
    /\ flatData = <<>>
    /\ supportsCount = FALSE
    /\ firstFlat = <<>>
    /\ npc = "raw"
    /\ ParserIdle /\ IdentIdle /\ BuildIdle
    /\ MessageFilesIdle /\ PlaceholderFilesIdle /\ SafeIdle /\ CallsIdle

\* decodeMessageFileWithRaw: result.Templates = convertMixedToStringMap(mixedData)
ConvertMixed ==
    /\ npc = "raw"
    /\ flatData' \in convertMixedToStringMap(rawData)
    /\ npc' = "flat"
    /\ UNCHANGED <<rawData, supportsCount, firstFlat, ncfg, safeVars, callVars,
                   parserVars, identVars, buildVars, inputVars>>

\* Build: supportsCount := messageSupportsCount(originalTemplates, cfg)
DetectPlural ==
    /\ npc = "flat"
    /\ supportsCount' = messageSupportsCount(flatData, ncfg)
    /\ ncfg' = IF ncfg.Backend = GoI18n
               THEN [ncfg EXCEPT !.PluralPlaceholders = DefaultedPluralPlaceholders(ncfg)]
               ELSE ncfg
    /\ npc' = "counted"
    /\ UNCHANGED <<rawData, flatData, firstFlat, safeVars, callVars,
                   parserVars, identVars, buildVars, inputVars>>

\* the same file is decoded once more
ConvertMixedAgain ==
    /\ npc = "counted"
    /\ firstFlat' = flatData
    /\ flatData' \in convertMixedToStringMap(rawData)
    /\ npc' = "flatAgain"
    /\ UNCHANGED <<rawData, supportsCount, ncfg, safeVars, callVars,
                   parserVars, identVars, buildVars, inputVars>>

NextNormalize == ConvertMixed \/ DetectPlural \/ ConvertMixedAgain

SpecNormalize == InitNormalize /\ [][NextNormalize]_vars

(***************************************************************************)
(* SafeGoIdentifier on one name: a reserved word or another word, in lower *)
(* case, capitalized or in upper case, with up to MaxUnderscores           *)
(* underscores appended                                                    *)
(***************************************************************************)
MaxUnderscores == 1

OtherWords == { <<>>, <<"x">>, <<"g", "o", "n", "e">>, <<"t", "y", "p">>, <<"i", "f", "f">> }

Capitalized(w) == IF w = <<>> THEN w ELSE <<ToUpperChar(w[1])>> \o Tail(w)

UpperCased(w) == [i \in 1..Len(w) |-> ToUpperChar(w[i])]

Identifiers ==
    { v \o Rep(<<"_">>, n) :
        v \in UNION { { w, Capitalized(w), UpperCased(w) } : w \in goReservedWords \cup OtherWords },
        n \in 0..MaxUnderscores }

InitSafe ==
    /\ ident \in Identifiers
    /\ escaped = <<>>
    /\ escapedTwice = <<>>
    /\ spc = "new"
    /\ ParserIdle /\ IdentIdle /\ BuildIdle
    /\ MessageFilesIdle /\ PlaceholderFilesIdle /\ NormalizeIdle /\ CallsIdle

\* SafeGoIdentifier(name)
CallSafeGoIdentifier ==
    /\ spc = "new"
    /\ escaped' = SafeGoIdentifier(ident)
    /\ spc' = "once"
    /\ UNCHANGED <<ident, escapedTwice, normalizeVars, callVars, parserVars,
                   identVars,
                   buildVars, inputVars>>

\* SafeGoIdentifier applied to its own result
CallSafeGoIdentifierAgain ==
    /\ spc = "once"
    /\ escapedTwice' = SafeGoIdentifier(escaped)
    /\ spc' = "twice"
    /\ UNCHANGED <<ident, escaped, normalizeVars, callVars, parserVars,
                   identVars,
                   buildVars, inputVars>>

NextSafe == CallSafeGoIdentifier \/ CallSafeGoIdentifierAgain

SpecSafe == InitSafe /\ [][NextSafe]_vars

(***************************************************************************)
(* ParsePlaceholders over the files a pattern matches.  A file has a base  *)
(* name and is undecodable or holds item ID -> value (simple) or           *)
(* item ID -> locale -> value (compound); the files are of a total size of *)
(* at most MaxPlaceholderFileSize: one for every file and one for every    *)
(* item                                                                    *)
(***************************************************************************)
MaxPlaceholderFileSize == 3

YamlExt == <<".", "y", "a", "m", "l">>

FileBases ==
    { <<"x", ".", "e", "n">> \o YamlExt, <<"x", ".", "j", "a">> \o YamlExt,
      <<"1", "x", ".", "e", "n">> \o YamlExt, <<"y">>, <<".", "e", "n">> \o YamlExt }

FileItemIDs == { <<"u">>, <<"_", "1">>, <<"1", "u">>, <<>>, <<"u", "-", "v">> }

FileValue(compound) == IF compound THEN (<<"e", "n">> :> <<"z">>) ELSE <<"z">>

PlaceholderFileDatas(b, compound) ==
    IF b < 1 THEN {}
    ELSE { [Base |-> base, Err |-> TRUE, Data |-> <<>>] : base \in FileBases } \cup
         { [Base |-> base, Err |-> FALSE, Data |-> [id \in S |-> FileValue(compound)]] :
             base \in FileBases,
             S \in { T \in SUBSET FileItemIDs : Cardinality(T) <= b - 1 } }

RECURSIVE PlaceholderFileLists(_, _)
PlaceholderFileLists(b, compound) ==
    { <<>> } \cup
    UNION { { <<f>> \o rest :
                rest \in PlaceholderFileLists(b - 1 - Cardinality(DOMAIN f.Data), compound) } :
            f \in PlaceholderFileDatas(b, compound) }

InitPlaceholders ==
    /\ \E compound \in BOOLEAN :
          /\ phFiles \in PlaceholderFileLists(MaxPlaceholderFileSize, compound)
          /\ phCompound = compound
    /\ phFile = 1
    /\ kindMap = <<>>
    /\ phResults = <<>>
    /\ phRet = NoReturn
    /\ phpc = "files"
    /\ ParserIdle /\ IdentIdle /\ BuildIdle
    /\ MessageFilesIdle /\ NormalizeIdle /\ SafeIdle /\ CallsIdle

\* the pattern matches no file: return []model.PlaceholderSource{}, nil
NoPlaceholderFiles ==
    /\ phpc = "files"
    /\ Len(phFiles) = 0
    /\ phRet' = [results |-> <<>>, err |-> FALSE]
    /\ phpc' = "returned"
    /\ UNCHANGED <<phFiles, phCompound, phFile, kindMap, phResults, parserVars, identVars,
                   buildVars, messageFileVars, utilVars>>

\* one iteration of the loop over the files
ReadPlaceholderFile ==
    /\ phpc = "files"
    /\ phFile <= Len(phFiles)
    /\ LET file == phFiles[phFile]
       IN IF file.Err
          THEN /\ phRet' = [results |-> <<>>, err |-> TRUE]
               /\ phpc' = "returned"
               /\ UNCHANGED <<phFile, kindMap>>
          ELSE /\ kindMap' = MergedKindMap(kindMap, KindOfFile(file.Base),
                                           ParsedFile(file, phCompound))
               /\ phFile' = phFile + 1
               /\ UNCHANGED <<phRet, phpc>>
    /\ UNCHANGED <<phFiles, phCompound, phResults, parserVars, identVars,
                   buildVars, messageFileVars, utilVars>>

\* the loop over the files is over
PlaceholderFilesRead ==
    /\ phpc = "files"
    /\ Len(phFiles) > 0
    /\ phFile > Len(phFiles)
    /\ phpc' = "kinds"
    /\ UNCHANGED <<phFiles, phCompound, phFile, kindMap, phResults, phRet, parserVars,
                   identVars, buildVars, messageFileVars, utilVars>>

\* the kinds the loop over kindMap has not reached yet
PendingKinds == DOMAIN kindMap \ { phResults[i].Kind : i \in DOMAIN phResults }

\* one iteration of "for kind, items := range kindMap"
ValidatePlaceholderKind ==
    /\ phpc = "kinds"
    /\ \E kind \in PendingKinds :
          IF KindFailsValidation(kind, kindMap[kind])
          THEN /\ phRet' = [results |-> <<>>, err |-> TRUE]
               /\ phpc' = "returned"
               /\ UNCHANGED phResults
          ELSE /\ phResults' = Append(phResults, [Kind |-> kind, Items |-> kindMap[kind]])
               /\ UNCHANGED <<phRet, phpc>>
    /\ UNCHANGED <<phFiles, phCompound, phFile, kindMap, parserVars, identVars,
                   buildVars, messageFileVars, utilVars>>

\* return results, nil
ReturnPlaceholders ==
    /\ phpc = "kinds"
    /\ PendingKinds = {}
    /\ phRet' = [results |-> phResults, err |-> FALSE]
    /\ phpc' = "returned"
    /\ UNCHANGED <<phFiles, phCompound, phFile, kindMap, phResults, parserVars, identVars,
                   buildVars, messageFileVars, utilVars>>

NextPlaceholders ==
    \/ NoPlaceholderFiles \/ ReadPlaceholderFile \/ PlaceholderFilesRead
    \/ ValidatePlaceholderKind \/ ReturnPlaceholders

SpecPlaceholders == InitPlaceholders /\ [][NextPlaceholders]_vars

(***************************************************************************)
(* Config.IsPluralPlaceholder on one configuration and one name.  The      *)
(* configured list holds up to MaxPlurals names; the name asked about is a *)
(* configured or default name, in some letter case, whole, shortened,      *)
(* extended or padded with a space                                         *)
(***************************************************************************)
MaxPlurals == 2

PluralNames == { <<"C", "o", "u", "n", "t">>, <<"N">>, <<"n", "O">> }

ConfiguredLists ==
    UNION { [1..n -> PluralNames] : n \in 0..MaxPlurals }

Variants(w) ==
    { w, ToLower(w), UpperCased(w),
      Tail(w), SubSeq(w, 1, Len(w) - 1),
      <<" ">> \o w, w \o <<" ">>, <<"M", "y">> \o w, w \o <<"s">>, w \o <<"!">> }

AskedNames ==
    UNION { Variants(w) : w \in PluralNames } \cup { <<>>, <<" ">>, <<"x">> }

InitPlural ==
    /\ configured \in ConfiguredLists
    /\ pluralCfg \in { [Backend |-> b, PluralPlaceholders |-> configured] : b \in Backends }
    /\ pname \in AskedNames
    /\ isPlural = FALSE
    /\ ppc = "new"
    /\ ParserIdle /\ IdentIdle /\ BuildIdle
    /\ MessageFilesIdle /\ PlaceholderFilesIdle /\ NormalizeIdle /\ SafeIdle
    /\ GeneratorIdle /\ RerunIdle

\* c.IsPluralPlaceholder(name); GetPluralPlaceholders stores the default
\* list in a configuration that has none
CallIsPluralPlaceholder ==
    /\ ppc = "new"
    /\ isPlural' = IsPluralPlaceholder(pluralCfg, pname)
    /\ pluralCfg' = [pluralCfg EXCEPT
                       !.PluralPlaceholders = DefaultedPluralPlaceholders(pluralCfg)]
    /\ ppc' = "called"
    /\ UNCHANGED <<configured, pname, generatorVars, rerunVars, normalizeVars, safeVars,
                   parserVars, identVars, buildVars, inputVars>>

NextPlural == CallIsPluralPlaceholder

SpecPlural == InitPlural /\ [][NextPlural]_vars

(***************************************************************************)
(* generator.Run on one configuration.  What the file system and the       *)
(* stages called do is chosen freely: the messages pattern matches up to   *)
(* MaxFound files, a stage returns normally, returns an error or panics.   *)
(***************************************************************************)
MaxFound == 2

RunConfigs ==
    { NilCfg }
    \cup { [Nil |-> FALSE, MessagesGlob |-> m, PlaceholdersGlob |-> p,
            OutputDir |-> o, Locales |-> l] :
             m \in {"", "messages/*.yaml"}, p \in {"", "placeholders/*.yaml"},
             o \in {"", "out"}, l \in { <<>>, <<"en">>, <<"en", "ja">> } }

Failures == {"error", "panic"}

outsideGenerator ==
    <<pluralVars, rerunVars, normalizeVars, safeVars, parserVars, identVars, buildVars, inputVars>>

InitRun ==
    /\ runCfg \in RunConfigs
    /\ found = 0 /\ messageCount = 0
    /\ executed = <<>>
    /\ returnErr = ""
    /\ dirCreated = FALSE /\ fileWritten = FALSE
    /\ gpc = "validate"
    /\ ParserIdle /\ IdentIdle /\ BuildIdle
    /\ MessageFilesIdle /\ PlaceholderFilesIdle /\ NormalizeIdle /\ SafeIdle
    /\ PluralIdle /\ RerunIdle

\* the stage ended normally and Run goes on to the next one
Passes(stage, next) ==
    /\ executed' = Append(executed, Entered(stage, "ok"))
    /\ gpc' = next
    /\ returnErr' = returnErr

\* the stage failed: Run returns its error, wrapped
Fails(stage, outcome) ==
    /\ executed' = Append(executed, Entered(stage, outcome))
    /\ gpc' = "returned"
    /\ returnErr' = stage

\* the checks of cfg and of its required fields
RunValidate ==
    /\ gpc = "validate"
    /\ IF validateConfig(runCfg) = ""
       THEN Passes("validate", "glob")
       ELSE Fails("validate", "error")
    /\ UNCHANGED <<runCfg, found, messageCount, dirCreated, fileWritten, outsideGenerator>>

\* filepath.Glob(cfg.MessagesGlob) and the check that it matched a file
RunGlob ==
    /\ gpc = "glob"
    /\ \/ \E n \in 0..MaxFound :
             /\ found' = n
             /\ IF n = 0 THEN Fails("glob", "error") ELSE Passes("glob", "parseMessages")
       \/ /\ found' = found
          /\ Fails("glob", "error")
    /\ UNCHANGED <<runCfg, messageCount, dirCreated, fileWritten, outsideGenerator>>

\* parser.ParseMessages(cfg.MessagesGlob)
RunParseMessages ==
    /\ gpc = "parseMessages"
    /\ \/ \E n \in 0..found :
             /\ messageCount' = n
             /\ Passes("parseMessages", "parsePlaceholders")
       \/ \E o \in Failures :
             /\ messageCount' = messageCount
             /\ Fails("parseMessages", o)
    /\ UNCHANGED <<runCfg, found, dirCreated, fileWritten, outsideGenerator>>

\* parser.ParsePlaceholders(cfg.PlaceholdersGlob, cfg.Locales, cfg.Compound)
RunParsePlaceholders ==
    /\ gpc = "parsePlaceholders"
    /\ \/ Passes("parsePlaceholders", "checkMessages")
       \/ \E o \in Failures : Fails("parsePlaceholders", o)
    /\ UNCHANGED <<runCfg, found, messageCount, dirCreated, fileWritten, outsideGenerator>>

\* the check that parsing returned a message
RunCheckMessages ==
    /\ gpc = "checkMessages"
    /\ IF messageCount = 0
       THEN Fails("checkMessages", "error")
       ELSE Passes("checkMessages", "build")
    /\ UNCHANGED <<runCfg, found, messageCount, dirCreated, fileWritten, outsideGenerator>>

\* model.Build(messages, placeholders, cfg.Locales)
RunBuild ==
    /\ gpc = "build"
    /\ \/ Passes("build", "mkdir")
       \/ \E o \in Failures : Fails("build", o)
    /\ UNCHANGED <<runCfg, found, messageCount, dirCreated, fileWritten, outsideGenerator>>

\* os.MkdirAll(cfg.OutputDir, 0750); a failed call may have created the
\* directory or a part of its path
RunMkdir ==
    /\ gpc = "mkdir"
    /\ \/ /\ dirCreated' = TRUE
          /\ Passes("mkdir", "templates")
       \/ /\ dirCreated' \in BOOLEAN
          /\ Fails("mkdir", "error")
    /\ UNCHANGED <<runCfg, found, messageCount, fileWritten, outsideGenerator>>

\* model.BuildTemplates(messages, placeholders, cfg.Locales)
RunBuildTemplates ==
    /\ gpc = "templates"
    /\ \/ Passes("templates", "render")
       \/ \E o \in Failures : Fails("templates", o)
    /\ UNCHANGED <<runCfg, found, messageCount, dirCreated, fileWritten, outsideGenerator>>

\* templatex.Render(outputFile, ...), which writes the output file; a
\* failed call may have written it
RunRender ==
    /\ gpc = "render"
    /\ \/ /\ fileWritten' = TRUE
          /\ executed' = Append(executed, Entered("render", "ok"))
          /\ gpc' = "returned"
          /\ returnErr' = ""
       \/ \E o \in Failures :
             /\ fileWritten' \in BOOLEAN
             /\ Fails("render", o)
    /\ UNCHANGED <<runCfg, found, messageCount, dirCreated, outsideGenerator>>

NextRun ==
    \/ RunValidate
    \/ RunGlob
    \/ RunParseMessages
    \/ RunParsePlaceholders
    \/ RunCheckMessages
    \/ RunBuild
    \/ RunMkdir
    \/ RunBuildTemplates
    \/ RunRender

SpecRun == InitRun /\ [][NextRun]_vars

(***************************************************************************)
(* Properties of the parser                                                *)
(***************************************************************************)
Least(S) == CHOOSE i \in S : \A j \in S : i <= j

\* the contents of the {{ ... }} blocks of t from position from on (1-based),
\* left to right; nothing from the first {{ without a later }} on
RECURSIVE BlockContents(_, _)
BlockContents(t, from) ==
    LET opens == {i \in from..(Len(t) - 1) : t[i] = "{" /\ t[i + 1] = "{"}
    IN IF opens = {} THEN <<>>
       ELSE LET o == Least(opens)
                closes == {j \in (o + 2)..(Len(t) - 1) : t[j] = "}" /\ t[j + 1] = "}"}
            IN IF closes = {} THEN <<>>
               ELSE <<SubSeq(t, o + 2, Least(closes) - 1)>>
                        \o BlockContents(t, Least(closes) + 2)

\* the part of s before the first occurrence of character c (all of s if none)
Before(s, c) ==
    LET at == {i \in DOMAIN s : s[i] = c}
    IN IF at = {} THEN s ELSE SubSeq(s, 1, Least(at) - 1)

\* the part of s after the first occurrence of character c (empty if none)
After(s, c) ==
    LET at == {i \in DOMAIN s : s[i] = c}
    IN IF at = {} THEN <<>> ELSE SubSeq(s, Least(at) + 1, Len(s))

\* the (name, suffix) pair one block content stands for, if any
PairOfContent(content) ==
    LET e == TrimSpace(content)
    IN IF e = <<>> \/ e[1] # "." THEN <<>>
       ELSE LET path == Before(Tail(e), "|")
                name == TrimSpace(Before(path, ":"))
                suffix == TrimSpace(After(path, ":"))
            IN IF name = <<>> THEN <<>> ELSE <<[Name |-> name, Suffix |-> suffix]>>

RECURSIVE PairsOfContents(_)
PairsOfContents(cs) ==
    IF cs = <<>> THEN <<>> ELSE PairOfContent(Head(cs)) \o PairsOfContents(Tail(cs))

ExpectedFields(t) == PairsOfContents(BlockContents(t, 1))

\* C2: extractFieldInfos returns, left to right and with duplicates kept, one
\* (name, suffix) pair per {{ ... }} block whose trimmed content begins with '.'
\* (function chain cut at the first '|', split at the first ':', both trimmed,
\* empty names dropped); no field syntax gives the empty list; scanning stops
\* at the first {{ without a later }} and keeps the fields found before it.
C2_ExtractMatchesBlocks ==
    /\ epc \in {"done", "validated"} =>
        /\ results = ExpectedFields(tmpl)
        /\ results = extractFieldInfos(tmpl)
        /\ (~Contains(tmpl, OpenBraces) => results = <<>>)
    /\ epc = "scan" =>
        \E n \in 0..Len(ExpectedFields(tmpl)) : results = SubSeq(ExpectedFields(tmpl), 1, n)

\* two blocks with the same (name, suffix): both pairs are kept, in order
C2_Witness ==
    /\ epc = "done"
    /\ Len(results) = 2 /\ results[1] = results[2]
    /\ results[1].Suffix # <<>>

\* an unterminated {{ after one field: the field before it is kept
C2_WitnessUnterminated ==
    /\ epc = "done"
    /\ Len(results) = 1
    /\ Contains(remaining, OpenBraces)

\* C1: duplicate validation fails exactly when some name occurs twice or more
\* among the extracted references with an empty suffix; function chains do not
\* distinguish occurrences and suffixed occurrences are never counted, so
\* references that all carry a suffix always pass.
C1_DuplicateIffUnsuffixedRepeat ==
    epc = "validated" =>
        /\ dupErr <=> \E i, j \in DOMAIN results :
                        /\ i < j
                        /\ results[i].Name = results[j].Name
                        /\ results[i].Suffix = <<>>
                        /\ results[j].Suffix = <<>>
        /\ (\A i \in DOMAIN results : results[i].Suffix # <<>>) => ~dupErr

\* {{.x}} and {{.x|u:}} : a duplicate although one occurrence has a chain
C1_Witness ==
    /\ epc = "validated"
    /\ dupErr
    /\ Count(tmpl, <<"|">>) = 1

\* the same name twice, each occurrence with its own suffix: passes
C1_WitnessSuffixed ==
    /\ epc = "validated"
    /\ ~dupErr
    /\ Len(results) = 2
    /\ results[1].Name = results[2].Name
    /\ results[1].Suffix # results[2].Suffix
    /\ results[1].Suffix # <<>> /\ results[2].Suffix # <<>>

(***************************************************************************)
(* Properties of identifier derivation                                     *)
(***************************************************************************)
\* s without its underscores, a character upper-cased when it is the first of
\* s or directly follows an underscore
RECURSIVE CamelFrom(_, _)
CamelFrom(s, i) ==
    IF i > Len(s) THEN <<>>
    ELSE IF s[i] = "_" THEN CamelFrom(s, i + 1)
    ELSE <<IF i = 1 \/ s[i - 1] = "_" THEN ToUpperChar(s[i]) ELSE s[i]>>
            \o CamelFrom(s, i + 1)

CamelOf(s) == CamelFrom(s, 1)

\* C4: the field name is CamelCase(base), followed by CamelCase(suffix) when
\* there is a suffix; the template key is base as authored, followed by
\* CamelCase(suffix) when there is a suffix; CamelCase drops the underscores
\* and upper-cases the first character of every non-empty segment.
C4_GeneratedNames ==
    /\ ipc \in {"named", "keyed"} =>
         genName = IF fi.Suffix = <<>> THEN CamelOf(fi.Name)
                   ELSE CamelOf(fi.Name) \o CamelOf(fi.Suffix)
    /\ ipc = "keyed" =>
         genKey = IF fi.Suffix = <<>> THEN fi.Name
                  ELSE fi.Name \o CamelOf(fi.Suffix)

\* base "a_a" with suffix "a_B": field name AAAB, template key a_aAB
C4_Witness ==
    /\ ipc = "keyed"
    /\ fi = FieldInfo(<<"a", "_", "a">>, <<"a", "_", "B">>)
    /\ genName = <<"A", "A", "A", "B">>
    /\ genKey = <<"a", "_", "a", "A", "B">>

(***************************************************************************)
(* Properties of Build                                                     *)
(***************************************************************************)
Range(seq) == { seq[i] : i \in DOMAIN seq }

DeclaredKinds == { placeholders[j].Kind : j \in DOMAIN placeholders }

\* the source of a declared kind (ParsePlaceholders returns one per kind)
SourceOfKind(k) == CHOOSE ph \in Range(placeholders) : ph.Kind = k

\* the definitions Build made for a declared kind: they carry its VarName
DefsOfKind(k) == { d \in Range(defs.Placeholders) : d.VarName = k \o TemplatesSuffix }

\* the definitions Build synthesized for fields nothing declares
SynthesizedAt ==
    { j \in DOMAIN defs.Placeholders :
        \A k \in DeclaredKinds : defs.Placeholders[j].VarName # k \o TemplatesSuffix }

\* the declared kinds a base name matches: by kind name or by an item ID
MatchingKinds(base) ==
    { k \in DeclaredKinds : k = base \/ base \in DOMAIN SourceOfKind(k).Items }

\* a plural placeholder of the go-i18n backend: Build leaves it out
LeftOut(f) ==
    /\ cfg.Backend = "go-i18n"
    /\ \E pl \in Range(DefaultedPluralPlaceholders(cfg)) : ToLower(pl) = ToLower(f.Name)

RECURSIVE KeptInfos(_)
KeptInfos(infos) ==
    IF infos = <<>> THEN <<>>
    ELSE (IF LeftOut(Head(infos)) THEN <<>> ELSE <<Head(infos)>>) \o KeptInfos(Tail(infos))

\* the message definitions built so far, each with the source it was built
\* from (before the final sort the two lists are aligned)
BuiltPairs ==
    IF bpc = "done"
    THEN { <<m, src>> \in Range(defs.Messages) \X Range(messages) :
             /\ src.ID = m.ID
             /\ Len(m.Fields) = Len(KeptInfos(src.FieldInfos))
             /\ \A k \in DOMAIN m.Fields :
                   m.Fields[k].FieldName = GenerateFieldName(KeptInfos(src.FieldInfos)[k])
             /\ DOMAIN m.Templates = DOMAIN src.Templates
             /\ m.RawTemplates = src.RawTemplates }
    ELSE { <<defs.Messages[i], messages[i]>> : i \in DOMAIN defs.Messages }

\* every built message definition has a source
AllBuilt ==
    /\ Len(defs.Messages) <= Len(messages)
    /\ \A m \in Range(defs.Messages) : \E pr \in BuiltPairs : pr[1] = m
    /\ bpc = "done" =>
         /\ Len(defs.Messages) = Len(messages)
         /\ \A src \in Range(messages) : \E pr \in BuiltPairs : pr[2] = src

\* a piece of a Build template as it reads after the rewrite
RewrittenPiece(piece) ==
    CASE piece = FieldPiece(<<"x">>, <<"a">>, <<>>) ->
             OpenBraces \o <<".", "x", "A">> \o CloseBraces
      [] piece = FieldPiece(<<"x">>, <<"b">>, ChainF) ->
             OpenBraces \o <<".", "x", "B">> \o ChainF \o CloseBraces
      [] OTHER -> piece

RECURSIVE ExpectedRewrite(_)
ExpectedRewrite(t) ==
    IF t = <<>> THEN <<>>
    ELSE LET piece == CHOOSE q \in BuildPieces : HasPrefix(t, q)
         IN RewrittenPiece(piece) \o ExpectedRewrite(SliceFrom(t, Len(piece)))

\* C3: for every message and locale the stored template is the source template
\* with every suffixed occurrence {{.name:suffix}} (its function chain kept)
\* replaced by {{.name+CamelCase(suffix)}} and everything else unchanged; no
\* stored template contains suffix notation.
C3_TemplatesRewritten ==
    /\ AllBuilt
    /\ \A pr \in BuiltPairs :
         /\ DOMAIN pr[1].Templates = DOMAIN pr[2].Templates
         /\ \A l \in DOMAIN pr[1].Templates :
              /\ pr[1].Templates[l] = ExpectedRewrite(pr[2].Templates[l])
              /\ \A f \in Range(extractFieldInfos(pr[1].Templates[l])) : f.Suffix = <<>>

\* {{.x:a}}{{.x:b | f}} in one locale and plain text in the other
C3_Witness ==
    /\ bpc = "done"
    /\ \E m \in Range(defs.Messages) :
         /\ DOMAIN m.Templates = {"en", "ja"}
         /\ m.Templates["en"] = OpenBraces \o <<".", "x", "A">> \o CloseBraces
                                  \o OpenBraces \o <<".", "x", "B">> \o ChainF \o CloseBraces

\* C5: a field's kind is looked up by its base name only: when the base name
\* is a declared kind name or an item ID of a declared kind, the Type is the
\* generated name of such a kind, and all suffixed variants of one base name
\* in a message have the same Type.
C5_TypeByBaseName ==
    \A pr \in BuiltPairs :
        LET infos == KeptInfos(pr[2].FieldInfos)
            fields == pr[1].Fields
        IN /\ Len(fields) = Len(infos)
           /\ \A k \in DOMAIN infos :
                MatchingKinds(infos[k].Name) # {} =>
                    \E kind \in MatchingKinds(infos[k].Name) : \E d \in DefsOfKind(kind) :
                        fields[k].Type = d.StructName
           /\ \A k1, k2 \in DOMAIN infos :
                infos[k1].Name = infos[k2].Name => fields[k1].Type = fields[k2].Type

\* x:a and x:b in one message while x is declared: both fields have one Type
C5_Witness ==
    /\ bpc = "done"
    /\ \E pr \in BuiltPairs :
         /\ Len(pr[1].Fields) = 2
         /\ pr[2].FieldInfos[1].Name = <<"x">> /\ pr[2].FieldInfos[1].Suffix = <<"a">>
         /\ pr[2].FieldInfos[2].Name = <<"x">> /\ pr[2].FieldInfos[2].Suffix = <<"b">>
         /\ pr[1].Fields[1].Type = pr[1].Fields[2].Type
         /\ MatchingKinds(<<"x">>) # {}

\* C6 as claimed: for every field whose base name matches no declared kind
\* name and no item ID there is a Value definition named
\* CamelCase(base)+"Value" with exactly one item, whose ID is the base name and
\* whose locale map is empty, and only one such definition.
C6_SynthesizedForEveryUnmatched ==
    \A pr \in BuiltPairs :
        \A f \in Range(KeptInfos(pr[2].FieldInfos)) :
            MatchingKinds(f.Name) = {} =>
                Cardinality({ j \in DOMAIN defs.Placeholders :
                    LET d == defs.Placeholders[j]
                    IN /\ d.StructName = CamelOf(f.Name) \o ValueSuffix
                       /\ d.IsValue
                       /\ Len(d.Items) = 1
                       /\ d.Items[1].ID = f.Name
                       /\ DOMAIN d.Items[1].Templates = {} }) = 1

\* the base name a synthesized definition was made for
BaseOfSynthesized(d) == SubSeq(d.VarName, 1, Len(d.VarName) - Len(TemplatesSuffix))

\* C6 as amended: an unmatched field has the Type CamelCase(base)+"Value" and
\* a definition of that name exists; a definition is synthesized only when no
\* definition of that name exists yet, so synthesized definitions have names
\* of their own (none shared with a declared or another synthesized
\* definition), each is a Value definition with exactly one item, whose ID is
\* the name it was made for and whose locale map is empty; when no other
\* declared or requested name has the same generated name, that name is the
\* field's base name.
C6_SynthesisIdempotent ==
    /\ \A pr \in BuiltPairs :
         LET infos == KeptInfos(pr[2].FieldInfos)
         IN \A k \in DOMAIN infos :
              MatchingKinds(infos[k].Name) = {} =>
                 /\ pr[1].Fields[k].Type = CamelOf(infos[k].Name) \o ValueSuffix
                 /\ \E d \in Range(defs.Placeholders) :
                       /\ d.StructName = pr[1].Fields[k].Type
                       /\ d.IsValue
                       /\ \/ d.VarName = infos[k].Name \o TemplatesSuffix
                          \/ CamelOf(BaseOfSynthesized(d)) = CamelOf(infos[k].Name)
    /\ \A j \in SynthesizedAt :
         LET d == defs.Placeholders[j]
             base == BaseOfSynthesized(d)
         IN /\ d.StructName = CamelOf(base) \o ValueSuffix
            /\ d.IsValue
            /\ Len(d.Items) = 1
            /\ d.Items[1].ID = base
            /\ d.Items[1].FieldName = CamelOf(base)
            /\ DOMAIN d.Items[1].Templates = {}
            /\ \A i \in DOMAIN defs.Placeholders :
                 i # j => defs.Placeholders[i].StructName # d.StructName
            /\ \E src \in Range(messages) : \E f \in Range(KeptInfos(src.FieldInfos)) :
                 f.Name = base /\ MatchingKinds(base) = {}

\* two messages ask for the undeclared x: one definition XValue with item x
C6_Witness ==
    /\ bpc = "done"
    /\ Len(defs.Messages) = 2
    /\ \A m \in Range(defs.Messages) :
         Len(m.Fields) = 1 /\ m.Fields[1].Type = <<"X">> \o ValueSuffix
    /\ placeholders = <<>>
    /\ Len(defs.Placeholders) = 1
    /\ defs.Placeholders[1].Items[1].ID = <<"x">>

\* C7: the placeholder definitions have pairwise distinct generated names and
\* the Type of every field is the name of exactly one of them.
C7_KindNamesUnique ==
    bpc = "done" =>
        /\ \A i, j \in DOMAIN defs.Placeholders :
              i # j => defs.Placeholders[i].StructName # defs.Placeholders[j].StructName
        /\ \A m \in Range(defs.Messages) : \A f \in Range(m.Fields) :
              Cardinality({ j \in DOMAIN defs.Placeholders :
                              defs.Placeholders[j].StructName = f.Type }) = 1

\* C8: a declared kind is a Value kind, named CamelCase(kind)+"Value", exactly
\* when every item has an empty locale map (also when it has no items), and a
\* Text kind, named CamelCase(kind)+"Text", when some item has a non-empty one.
C8_ClassifiedByShape ==
    /\ bpc = "placeholders" =>
         \A j \in DOMAIN defs.Placeholders :
            defs.Placeholders[j].VarName = placeholders[j].Kind \o TemplatesSuffix
    /\ \A j \in DOMAIN placeholders :
         (bpc # "placeholders" \/ j <= Len(defs.Placeholders)) =>
            LET ph == placeholders[j]
                allEmpty == \A id \in DOMAIN ph.Items : ph.Items[id] = NoLocales
            IN /\ Cardinality(DefsOfKind(ph.Kind)) = 1
               /\ \A d \in DefsOfKind(ph.Kind) :
                    /\ d.IsValue <=> allEmpty
                    /\ allEmpty => d.StructName = CamelOf(ph.Kind) \o ValueSuffix
                    /\ ~allEmpty => d.StructName = CamelOf(ph.Kind) \o TextSuffix

\* a kind with one item without and one item with locale text: a Text kind
C8_Witness ==
    /\ bpc = "done"
    /\ \E ph \in Range(placeholders) :
         /\ \E id \in DOMAIN ph.Items : ph.Items[id] = NoLocales
         /\ \E id \in DOMAIN ph.Items : ph.Items[id] # NoLocales
         /\ \E d \in DefsOfKind(ph.Kind) : ~d.IsValue

\* C9: a second Build run over the same input returns what the first returned.
C9_SecondRunIdentical ==
    (bpc = "done" /\ run = 2) => defs = firstDefs

\* C10: in the result the message definitions are in ascending order of ID and
\* the placeholder definitions, declared and synthesized together, in
\* ascending order of generated name; both lists hold what was built.
C10_ResultSorted ==
    bpc = "done" =>
        /\ \A i, j \in DOMAIN defs.Messages :
              i < j => ~StrLess(defs.Messages[j].ID, defs.Messages[i].ID)
        /\ \A i, j \in DOMAIN defs.Placeholders :
              i < j => ~StrLess(defs.Placeholders[j].StructName,
                                defs.Placeholders[i].StructName)
        /\ AllBuilt
        /\ \A k \in DeclaredKinds : DefsOfKind(k) # {}

\* messages given as b, a and a synthesized CountValue sorted before the
\* declared kind
C10_Witness ==
    /\ bpc = "done"
    /\ Len(messages) = 2
    /\ messages[1].ID = <<"b">> /\ messages[2].ID = <<"a">>
    /\ defs.Messages[1].ID = <<"a">> /\ defs.Messages[2].ID = <<"b">>
    /\ Len(placeholders) = 1
    /\ Len(defs.Placeholders) = 2
    /\ 1 \in SynthesizedAt


(***************************************************************************)
(* Properties of ParseMessages                                             *)
(***************************************************************************)
\* the (file, message, locale) entries whose template fails a validation
FailingEntries ==
    { e \in { <<i, id, l>> : i \in DOMAIN pmFiles, id \in MessageIDs, l \in FileLocales } :
        /\ ~pmFiles[e[1]].Err
        /\ e[2] \in DOMAIN pmFiles[e[1]].Templates
        /\ e[3] \in DOMAIN pmFiles[e[1]].Templates[e[2]]
        /\ LET t == pmFiles[e[1]].Templates[e[2]][e[3]]
           IN validateNoDuplicatePlaceholders(t) \/ validateTemplateComplexity(t) }

\* C11: once ParseMessages has returned, a template of any locale of any
\* message of any file that fails duplicate or complexity validation means
\* an error was returned, and an error is never returned together with
\* messages: the result is then nil.
C11_FailFastNoPartialResult ==
    pmpc \in {"returned", "built"} =>
        /\ FailingEntries # {} => pmRet.err
        /\ pmRet.err => pmRet.results = <<>>

\* ParseMessages had accepted a message when the single failing template of
\* the input made it return the error
C11_Witness ==
    /\ pmpc = "returned"
    /\ pmRet.err
    /\ Len(pmResults) > 0
    /\ pmRet.results = <<>>
    /\ Cardinality(FailingEntries) = 1

\* the failing template fails complexity validation only
C11_WitnessComplexity ==
    /\ pmpc = "returned"
    /\ pmRet.err
    /\ \A e \in FailingEntries : pmFiles[e[1]].Templates[e[2]][e[3]] = TooDeep
    /\ FailingEntries # {}


(***************************************************************************)
(* Properties of validateTemplateComplexity                                *)
(***************************************************************************)
\* opening braces minus closing braces among the first i characters
BraceBalance(t, i) ==
    Cardinality({k \in 1..i : t[k] = "{"}) - Cardinality({k \in 1..i : t[k] = "}"})

\* the nesting depth, counted per "{" character: the highest balance of a prefix
NestingDepth(t) ==
    CHOOSE d \in 0..Len(t) :
        /\ \E i \in 0..Len(t) : BraceBalance(t, i) = d
        /\ \A i \in 0..Len(t) : BraceBalance(t, i) <= d

\* first position of the run of "{" that position k lies in
RunStart(t, k) ==
    CHOOSE i \in 1..k :
        /\ \A j \in i..k : t[j] = "{"
        /\ i = 1 \/ t[i - 1] # "{"

\* the placeholder openings: in every run of "{" the second, fourth, ... brace
\* closes an opening "{{"
Openings(t) ==
    Cardinality({k \in 1..Len(t) : t[k] = "{" /\ (k - RunStart(t, k)) % 2 = 1})

\* C12: validateTemplateComplexity fails exactly when the nesting depth,
\* counted per "{" character, exceeds 5 or the number of placeholder openings
\* "{{" exceeds 20.
C12_ComplexityIffDeepOrMany ==
    epc = "checked" =>
        (complexErr <=> (NestingDepth(tmpl) > 5 \/ Openings(tmpl) > 20))

\* a template of depth exactly 5 with exactly 20 openings passes
C12_Witness ==
    /\ epc = "checked"
    /\ NestingDepth(tmpl) = 5
    /\ Openings(tmpl) = 20
    /\ ~complexErr

\* depth 6 with few openings fails
C12_WitnessDeep ==
    /\ epc = "checked"
    /\ NestingDepth(tmpl) = 6
    /\ Openings(tmpl) <= 20
    /\ complexErr

\* 21 openings of depth 2 fail
C12_WitnessMany ==
    /\ epc = "checked"
    /\ NestingDepth(tmpl) = 2
    /\ Openings(tmpl) = 21
    /\ complexErr


(***************************************************************************)
(* Properties of the normalization and of the plural detection             *)
(***************************************************************************)
\* the plural-placeholder names the configuration stands for
ConfiguredPluralNames(c) ==
    IF c.PluralPlaceholders = <<>> THEN { CountName }
    ELSE { c.PluralPlaceholders[i] : i \in DOMAIN c.PluralPlaceholders }

\* the flattened template references a placeholder whose base name is a
\* plural-placeholder name, letter case apart
ReferencesPluralName(t, c) ==
    \E i \in DOMAIN ExpectedFields(t) : \E n \in ConfiguredPluralNames(c) :
        ToLower(ExpectedFields(t)[i].Name) = ToLower(n)

IsPluralMap(value) == value.Type \in {"map", "imap"}

\* C13: with the go-i18n backend a message is count-aware exactly when, for
\* some locale, its flattened template references a plural placeholder by
\* base name (case-insensitively) or its raw template is a plural-category map.
C13_CountAwareIffPluralReferenceOrMap ==
    npc = "counted" /\ ncfg.Backend = GoI18n =>
        (supportsCount <=>
            \E l \in DOMAIN rawData :
                ReferencesPluralName(flatData[l], ncfg) \/ IsPluralMap(rawData[l]))


\* the forms of a plural map under their string keys
FormsOf(value) == IF value.Type = "imap" THEN StringMap(value.Forms) ELSE value.Forms

\* the texts of the forms of the given categories that are strings
StringForms(value, cats) ==
    { FormsOf(value)[c].Str :
        c \in { k \in DOMAIN FormsOf(value) \cap cats : FormsOf(value)[k].Type = "string" } }

\* what the normalization may make of one raw value
ExpectedFlat(value) ==
    IF value.Type = "string" THEN { value.Str }
    ELSE IF StringForms(value, {"other"}) # {} THEN StringForms(value, {"other"})
    ELSE IF StringForms(value, {"one"}) # {} THEN StringForms(value, {"one"})
    ELSE IF StringForms(value, DOMAIN FormsOf(value)) # {}
         THEN StringForms(value, DOMAIN FormsOf(value))
    ELSE { FallbackTemplate }

\* C15: normalization leaves a plain string unchanged, so that flattening the
\* flattened template changes nothing, and maps a plural map to its "other"
\* form if that is a string, else to its "one" form if that is a string, else
\* to one of its string-valued forms, and to "{{.Count}} items" only if it has
\* no string-valued form.
C15_NormalizationByPriority ==
    npc \in {"flat", "counted", "flatAgain"} =>
        \A l \in DOMAIN rawData :
            /\ rawData[l].Type \in {"string", "map", "imap"} =>
                   flatData[l] \in ExpectedFlat(rawData[l])
            /\ ConvertedValues(StringValue(flatData[l])) = { flatData[l] }

\* a plural map with a "one" and a different "other" form was flattened to
\* its "other" form
C15_Witness ==
    /\ npc = "flat"
    /\ rawData["en"].Type = "map"
    /\ StringForms(rawData["en"], {"one"}) # {}
    /\ StringForms(rawData["en"], {"other"}) # StringForms(rawData["en"], {"one"})
    /\ { flatData["en"] } = StringForms(rawData["en"], {"other"})

\* a plural map without any string-valued form was flattened to the fallback
C15_WitnessFallback ==
    /\ npc = "flat"
    /\ IsPluralMap(rawData["en"])
    /\ DOMAIN rawData["en"].Forms # {}
    /\ StringForms(rawData["en"], DOMAIN FormsOf(rawData["en"])) = {}
    /\ flatData["en"] = FallbackTemplate

\* C16: for a plural map with neither a string-valued "other" nor a
\* string-valued "one" form and two or more other string-valued forms, two
\* runs over the same map yield the same flattened template.
C16_FlatteningDeterministic ==
    npc = "flatAgain" =>
        \A l \in DOMAIN rawData :
            (/\ IsPluralMap(rawData[l])
             /\ StringForms(rawData[l], {"other", "one"}) = {}
             /\ Cardinality({ k \in DOMAIN FormsOf(rawData[l]) :
                                FormsOf(rawData[l])[k].Type = "string" }) >= 2)
            => flatData[l] = firstFlat[l]


(***************************************************************************)
(* Properties of Build on the messages ParseMessages returned              *)
(***************************************************************************)
\* the base name is a plural-placeholder name of the default configuration,
\* letter case apart
IsDefaultPluralName(name) == ToLower(name) = ToLower(CountName)

\* the FieldInfos of a source without the plural placeholders
OrdinaryInfos(src) ==
    SelectSeq(src.FieldInfos, LAMBDA f : ~IsDefaultPluralName(f.Name))

C14_WitnessOtherBackend ==
    /\ pmpc = "built" /\ bpc = "done"
    /\ cfg.Backend # GoI18n
    /\ \E m \in Range(defs.Messages) : \E k \in DOMAIN m.Fields :
          /\ m.Fields[k].FieldName = UpperCountName
          /\ m.Fields[k].Type = UpperCountName \o ValueSuffix
    /\ \E d \in Range(defs.Placeholders) : d.VarName = UpperCountName \o TemplatesSuffix


\* C17: after ParseMessages and Build no two message definitions of the
\* result have the same message ID, also when two files declare the ID.
C17_MessageIDsUnique ==
    pmpc = "built" /\ bpc = "done" =>
        \A i, j \in DOMAIN defs.Messages :
            i # j => defs.Messages[i].ID # defs.Messages[j].ID


(***************************************************************************)
(* Properties of generateStructName                                        *)
(***************************************************************************)
\* C18: the StructName Build stores for a message is "Msg" followed by the
\* CamelCase form of the ID if the ID starts with a decimal digit, and the
\* CamelCase form of the ID otherwise, the empty ID giving the empty name.
C18_StructNameOfMessage ==
    ipc = "structured" =>
        genStruct = (IF fi.Name # <<>> /\ fi.Name[1] \in {"0", "1", "2", "3", "4", "5", "6", "7", "8", "9"}
                     THEN <<"M", "s", "g">> \o CamelOf(fi.Name)
                     ELSE CamelOf(fi.Name))

\* the ID 1_a gave Msg1A
C18_Witness ==
    /\ ipc = "structured"
    /\ fi.Name = <<"1", "_", "a">>
    /\ genStruct = <<"M", "s", "g", "1", "A">>

\* the empty ID gave the empty name
C18_WitnessEmpty ==
    /\ ipc = "structured"
    /\ fi.Name = <<>>
    /\ genStruct = <<>>


(***************************************************************************)
(* Properties of SafeGoIdentifier                                          *)
(***************************************************************************)
\* the keywords of the Go language specification
GoKeywords ==
    { <<"b", "r", "e", "a", "k">>, <<"d", "e", "f", "a", "u", "l", "t">>, <<"f", "u", "n", "c">>,
      <<"i", "n", "t", "e", "r", "f", "a", "c", "e">>, <<"s", "e", "l", "e", "c", "t">>, <<"c", "a", "s", "e">>,
      <<"d", "e", "f", "e", "r">>, <<"g", "o">>, <<"m", "a", "p">>,
      <<"s", "t", "r", "u", "c", "t">>, <<"c", "h", "a", "n">>, <<"e", "l", "s", "e">>,
      <<"g", "o", "t", "o">>, <<"p", "a", "c", "k", "a", "g", "e">>, <<"s", "w", "i", "t", "c", "h">>,
      <<"c", "o", "n", "s", "t">>, <<"f", "a", "l", "l", "t", "h", "r", "o", "u", "g", "h">>, <<"i", "f">>,
      <<"r", "a", "n", "g", "e">>, <<"t", "y", "p", "e">>, <<"c", "o", "n", "t", "i", "n", "u", "e">>,
      <<"f", "o", "r">>, <<"i", "m", "p", "o", "r", "t">>, <<"r", "e", "t", "u", "r", "n">>,
      <<"v", "a", "r">> }

\* the name is the keyword, letter case apart
IsKeywordIgnoringCase(name, kw) ==
    /\ Len(name) = Len(kw)
    /\ \A i \in 1..Len(kw) : name[i] = kw[i] \/ name[i] = ToUpperChar(kw[i])

\* C19: SafeGoIdentifier appends one underscore to a name that is one of the
\* 25 Go keywords, letter case apart, and returns every other name unchanged;
\* its result is never a Go keyword, and applying it to its result changes
\* nothing.
C19_KeywordsEscapedOnce ==
    /\ Cardinality(GoKeywords) = 25
    /\ spc \in {"once", "twice"} =>
          /\ escaped = (IF \E kw \in GoKeywords : IsKeywordIgnoringCase(ident, kw)
                        THEN ident \o <<"_">> ELSE ident)
          /\ escaped \notin GoKeywords
    /\ spc = "twice" => escapedTwice = escaped

\* Func became Func_ and stayed Func_
C19_Witness ==
    /\ spc = "twice"
    /\ ident = <<"F", "u", "n", "c">>
    /\ escaped = <<"F", "u", "n", "c", "_">>
    /\ escapedTwice = escaped

\* type_ is no keyword and stayed as it is
C19_WitnessUnchanged ==
    /\ spc = "twice"
    /\ ident = <<"t", "y", "p", "e", "_">>
    /\ escapedTwice = ident


(***************************************************************************)
(* Properties of ParsePlaceholders                                         *)
(***************************************************************************)
\* letters, digits and the underscore by their byte values
IsLetterByte(c) == (Ord(c) >= 65 /\ Ord(c) <= 90) \/ (Ord(c) >= 97 /\ Ord(c) <= 122)

IsDigitByte(c) == Ord(c) >= 48 /\ Ord(c) <= 57

\* the name is no valid identifier: it is empty, does not start with a letter
\* or underscore, or holds a character that is no letter, digit or underscore
InvalidIdentifier(name) ==
    \/ Len(name) = 0
    \/ ~(IsLetterByte(name[1]) \/ name[1] = "_")
    \/ \E i \in 1..Len(name) : ~(IsLetterByte(name[i]) \/ IsDigitByte(name[i]) \/ name[i] = "_")

\* the kind names of the files: the base name up to its first dot
KindNamesOfFiles == { Before(phFiles[i].Base, ".") : i \in DOMAIN phFiles }

\* the item IDs the decodable files hold
ItemIDsOfFiles == UNION { DOMAIN phFiles[i].Data : i \in DOMAIN phFiles }

\* C20: once ParsePlaceholders has returned, a kind name or an item ID that is
\* no valid identifier means an error and a nil result; if every kind name and
\* item ID is valid (and every file could be decoded) no error is returned;
\* an error never comes with placeholder sources.
C20_InvalidIdentifierFailsAll ==
    phpc = "returned" =>
        /\ (\E n \in KindNamesOfFiles \cup ItemIDsOfFiles : InvalidIdentifier(n)) =>
               phRet.err /\ phRet.results = <<>>
        /\ ((\A n \in KindNamesOfFiles \cup ItemIDsOfFiles : ~InvalidIdentifier(n))
            /\ (\A i \in DOMAIN phFiles : ~phFiles[i].Err)) => ~phRet.err
        /\ phRet.err => phRet.results = <<>>

\* one kind had passed when the item ID 1u of another, validly named kind
\* made ParsePlaceholders return the error and nothing else
C20_Witness ==
    /\ phpc = "returned"
    /\ phRet.err
    /\ phRet.results = <<>>
    /\ Len(phResults) = 1
    /\ \A n \in KindNamesOfFiles : ~InvalidIdentifier(n)
    /\ \A i \in DOMAIN phFiles : ~phFiles[i].Err
    /\ { n \in ItemIDsOfFiles : InvalidIdentifier(n) } = { <<"1", "u">> }

\* the kind of the file .en.yaml is the empty name
C20_WitnessEmptyKind ==
    /\ phpc = "returned"
    /\ phRet.err
    /\ KindNamesOfFiles = { <<>> }
    /\ ItemIDsOfFiles = {}

\* every name is valid: the sources of two kinds are returned
C20_WitnessValid ==
    /\ phpc = "returned"
    /\ ~phRet.err
    /\ Len(phRet.results) = 2


(***************************************************************************)
(* Properties of Config.IsPluralPlaceholder                                *)
(***************************************************************************)
\* two characters that are equal or the two cases of one letter
SameLetter(a, b) ==
    \/ a = b
    \/ \E k \in 1..Len(LowerLetters) :
          {a, b} = {LowerLetters[k], UpperLetters[k]}

EqualIgnoringCase(s, t) ==
    /\ Len(s) = Len(t)
    /\ \A k \in 1..Len(s) : SameLetter(s[k], t[k])

\* the names in force: the configured ones, "Count" when none is configured
NamesInForce ==
    IF configured = <<>>
    THEN { <<"C", "o", "u", "n", "t">> }
    ELSE { configured[i] : i \in DOMAIN configured }

C21_WitnessDefaultNotListed ==
    /\ ppc = "called" /\ ~isPlural
    /\ configured # <<>>
    /\ pname = <<"C", "o", "u", "n", "t">>

\* a padded name asked of the default list
C21_WitnessPadded ==
    /\ ppc = "called" /\ ~isPlural
    /\ configured = <<>>
    /\ pname = <<"C", "o", "u", "n", "t", " ">>


(***************************************************************************)
(* Properties of generator.Run                                             *)
(***************************************************************************)
StageOrder ==
    <<"validate", "glob", "parseMessages", "parsePlaceholders",
      "checkMessages", "build", "mkdir", "templates", "render">>

StagesReading == {"glob", "parseMessages", "parsePlaceholders"}

Succeeded(stage) ==
    \E i \in DOMAIN executed : executed[i] = Entered(stage, "ok")

\* C22: Run enters its stages in the fixed order and returns at the first
\* one that fails, entering none after it; a nil configuration or an empty
\* locale list fails before any file is looked for or read; the output
\* directory is created and the output file written only after message
\* parsing, placeholder parsing and the model build succeeded
C22_StagesInOrderFailFast ==
    /\ Len(executed) <= Len(StageOrder)
    /\ \A i \in DOMAIN executed : executed[i].Stage = StageOrder[i]
    /\ \A i \in DOMAIN executed :
          executed[i].Outcome # "ok" =>
              /\ i = Len(executed)
              /\ gpc = "returned"
              /\ returnErr = executed[i].Stage
    /\ (runCfg.Nil \/ runCfg.Locales = <<>>) =>
          \A i \in DOMAIN executed : executed[i].Stage \notin StagesReading
    /\ (dirCreated \/ fileWritten) =>
          /\ Succeeded("parseMessages")
          /\ Succeeded("parsePlaceholders")
          /\ Succeeded("build")
    /\ fileWritten => dirCreated

\* Run returned the error of a stage in the middle, here the model build
C22_Witness ==
    /\ gpc = "returned" /\ returnErr = "build"
    /\ Len(executed) = 6
    /\ ~dirCreated /\ ~fileWritten

\* an empty locale list stopped Run in the validation
C22_WitnessEmptyLocales ==
    /\ gpc = "returned" /\ returnErr = "validate"
    /\ ~runCfg.Nil /\ runCfg.Locales = <<>>
    /\ runCfg.MessagesGlob # "" /\ runCfg.PlaceholdersGlob # "" /\ runCfg.OutputDir # ""

\* a run through all stages
C22_WitnessComplete ==
    /\ gpc = "returned" /\ returnErr = ""
    /\ Len(executed) = Len(StageOrder)
    /\ dirCreated /\ fileWritten


(***************************************************************************)
(* Properties of the fields of a message definition                        *)
(***************************************************************************)
\* C23: the fields of a message definition are one per distinct
\* (base name, suffix) identity the message references, so no two fields
\* of one message have the same generated field name
C23_OneFieldPerIdentity ==
    bpc = "done" =>
        \A k \in DOMAIN defs.Messages :
            LET fields == defs.Messages[k].Fields
            IN \A i, j \in DOMAIN fields :
                  i # j => fields[i].FieldName # fields[j].FieldName


\* C24: a message from whose fields Build left out a plural placeholder is
\* count-aware, so that the placeholder left out is provided by the count.
\* (Before the final sort message i is built from source i.)
C24_LeftOutFieldImpliesCountAware ==
    pmpc = "built" /\ bpc = "messages" =>
        \A i \in DOMAIN defs.Messages :
            Len(defs.Messages[i].Fields) < Len(messages[i].FieldInfos)
                => defs.Messages[i].SupportsCount


(***************************************************************************)
(* Properties of ParseMessages called twice                                *)
(***************************************************************************)
\* C25: the field list ParseMessages attaches to a message is a function of
\* the templates declared for it: two calls on the same files return the
\* same message sources, field lists included (the order of the sources
\* apart)
C25_FieldListFunctionOfTemplates ==
    pmRun = 2 /\ pmpc = "returned" /\ ~pmRet.err /\ ~firstRet.err =>
        Range(pmRet.results) = Range(firstRet.results)


(***************************************************************************)
(* Properties of Build on permuted placeholder sources                     *)
(***************************************************************************)
\* C26: the Type Build gives a field does not depend on the order of the
\* placeholder sources: after a second run on a permutation of the sources
\* every field has the Type the first run gave it
C26_TypeIndependentOfSourceOrder ==
    (bpc = "done" /\ run = 2) =>
        \A i \in DOMAIN defs.Messages :
            \A k \in DOMAIN defs.Messages[i].Fields :
                defs.Messages[i].Fields[k].Type = firstDefs.Messages[i].Fields[k].Type


\* the text an item is sorted by: its text in the primary locale, its ID
\* when the source has no such text or an empty one
SortText(src, id) ==
    LET primary == IF locales = <<>> THEN "en" ELSE locales[1]
    IN IF primary \in DOMAIN src.Items[id] /\ src.Items[id][primary] # <<>>
       THEN src.Items[id][primary]
       ELSE id

ComesBefore(src, a, b) ==
    \/ StrLess(SortText(src, a), SortText(src, b))
    \/ SortText(src, a) = SortText(src, b) /\ StrLess(a, b)

\* C27: the items of every Text placeholder definition are in ascending
\* order of their text in the primary locale (the first configured locale,
\* "en" without one; the item ID in place of a missing or empty text), items
\* of equal text in ascending order of ID
C27_TextItemsSorted ==
    \A d \in Range(defs.Placeholders) :
        ~d.IsValue =>
            \E src \in Range(placeholders) :
                /\ d.VarName = src.Kind \o TemplatesSuffix
                /\ { d.Items[i].ID : i \in DOMAIN d.Items } = DOMAIN src.Items
                /\ \A i, j \in DOMAIN d.Items :
                      i < j => ComesBefore(src, d.Items[i].ID, d.Items[j].ID)

\* two items in the order of their texts, which is not the order of their
\* IDs: x has no text of its own and comes before u, whose text is z
C27_Witness ==
    /\ bpc = "done"
    /\ \E d \in Range(defs.Placeholders) :
          /\ ~d.IsValue
          /\ Len(d.Items) = 2
          /\ d.Items[1].ID = <<"x">> /\ d.Items[2].ID = <<"u">>
          /\ d.Items[1].Templates = NoLocales

\* no locale configured: the items are sorted by their text in "en"
C27_WitnessNoLocale ==
    /\ bpc = "done" /\ locales = <<>>
    /\ \E d \in Range(defs.Placeholders) :
          /\ ~d.IsValue
          /\ Len(d.Items) = 2
          /\ d.Items[1].ID = <<"x">> /\ d.Items[2].ID = <<"u">>
          /\ d.Items[2].Templates = [l \in {"en"} |-> <<"z">>]

\* equal texts: the items are in the order of their IDs
C27_WitnessTie ==
    /\ bpc = "done"
    /\ \E d \in Range(defs.Placeholders) :
          /\ ~d.IsValue
          /\ Len(d.Items) = 2
          /\ d.Items[1].Templates = d.Items[2].Templates
          /\ d.Items[1].Templates # NoLocales
          /\ d.Items[1].ID = <<"u">>


(***************************************************************************)
(* Properties of extractFieldInfos on a validated template                 *)
(***************************************************************************)
\* C28: for a template that passed the complexity validation
\* extractFieldInfos returns no more fields than the template has
\* placeholder openings "{{", hence at most 20
C28_AtMostTwentyFields ==
    epc = "done" =>
        /\ Len(results) <= Openings(tmpl)
        /\ Len(results) <= 20

\* a validated template with exactly 20 fields
C28_Witness ==
    /\ epc = "done"
    /\ Len(results) = 20
    /\ Openings(tmpl) = 20

\* a validated template with more openings than fields
C28_WitnessFewerFields ==
    /\ epc = "done"
    /\ Len(results) > 0
    /\ Len(results) < Openings(tmpl)

\* a template with 21 fields did not pass
C28_WitnessRejected ==
    /\ epc = "checked" /\ complexErr
    /\ tmpl = Rep(FieldPiece(<<"x">>, <<"a">>, <<>>), 21)

\* the items of a kind one of which has an empty text in "en", sorted
C27_WitnessEmptyText ==
    /\ bpc = "done" /\ locales # <<"ja", "en">>
    /\ \E d \in Range(defs.Placeholders) :
          /\ ~d.IsValue
          /\ Len(d.Items) = 2
          /\ d.Items[1].ID = <<"x">>
          /\ d.Items[1].Templates = [l \in {"en"} |-> <<>>]
          /\ d.Items[2].Templates # NoLocales


(***************************************************************************)
(* Properties of generateStructName: the first character                   *)
(***************************************************************************)
\* C29: the struct name of a message with a non-empty ID does not begin
\* with a decimal digit
C29_StructNameNoLeadingDigit ==
    (ipc = "structured" /\ fi.Name # <<>>) =>
        (genStruct = <<>> \/ ~IsDigitByte(genStruct[1]))


(***************************************************************************)
(* Properties of the loop of extractFieldInfos                             *)
(***************************************************************************)
\* C30: extractFieldInfos terminates on every template: an iteration of its
\* loop either ends the scan or goes on with a strictly shorter remaining
\* text, and the scan comes to its end
C30_ExtractTerminates ==
    /\ [][epc = "scan" =>
             \/ epc' = "done"
             \/ epc' = "scan" /\ Len(remaining') < Len(remaining)]_vars
    /\ <>(epc # "scan")

\* the scan of a template with an unclosed opening after a field ended,
\* the field kept
C30_Witness ==
    /\ epc = "done"
    /\ Len(results) = 1
    /\ Contains(remaining, OpenBraces)
    /\ ~Contains(remaining, CloseBraces)

\* the scan of a template with openings next to each other ended
C30_WitnessAdjacent ==
    /\ epc = "done"
    /\ HasPrefix(tmpl, OpenBraces \o OpenBraces)
    /\ remaining = <<>>

====
